---------------------------- MODULE Spec2Model ----------------------------
(***************************************************************************)
(* Layer-Wise Primitive Stacking (LPS): a model of                         *)
(* meshconverter/reconstruction/layer_wise_stacker.py.                     *)
(*                                                                         *)
(* One behaviour is one call of LayerWiseStacker.reconstruct(mesh,         *)
(* vision_results) on a stacker built with the configuration chosen in     *)
(* Init.  pc is the position inside reconstruct().                         *)
(*                                                                         *)
(* Numbers.  Lengths are integers in units of 0.25 mm.  Heights along the  *)
(* slicing axis are rationals: np.linspace divides the sampled interval by *)
(* num_layers-1, so every axial coordinate is kept as a numerator over the *)
(* common denominator zden = max(num_layers-1, 1).  Ratios (fit quality,   *)
(* circularity, rectangularity, aspect ratio, fuzzy scores) are in         *)
(* thousandths.                                                            *)
(*                                                                         *)
(* Geometry kernel.  trimesh, shapely, scipy and sklearn are collaborators:*)
(* a mesh is a stack of right prisms along Z (cylinders, boxes, elliptic   *)
(* cylinders), as the repository's synthetic test meshes are built with    *)
(* trimesh.creation.cylinder and trimesh.util.concatenate, and the values  *)
(* the kernel computes for a cross-section (area, centroid, fits, shape    *)
(* metrics) are the closed-form values of that cross-section.              *)
(***************************************************************************)
EXTENDS Integers, Sequences, FiniteSets, TLC

VARIABLES
    mesh,                \* the input mesh (argument of reconstruct)
    vision_results,      \* optional vision hints (argument of reconstruct)
    layer_height,        \* self.layer_height
    min_segment_height,  \* self.min_segment_height
    use_cv_validation,   \* self.use_cv_validation
    pc,                  \* position inside reconstruct()
    axis_name,           \* result of detect_primary_axis
    zden,                \* common denominator of the axial coordinates
    layers,              \* result of slice_mesh
    segments,            \* the segment list of group_similar_layers
    merged,              \* loop flag of the short-segment merge loop
    iteration,           \* pass counter of the short-segment merge loop
    primitives,          \* the extruded solids
    reconstructed,       \* result of combine_primitives
    result,              \* the dict returned by reconstruct()
    log,                 \* what the call did: steps run, decisions, faults
    previous,            \* how an earlier call with the same arguments ended
    analyzer             \* LayerAnalyzer._group_layers_into_boxes: its locals

vars == <<mesh, vision_results, layer_height, min_segment_height,
          use_cv_validation, pc, axis_name, zden, layers, segments, merged,
          iteration, primitives, reconstructed, result, log, previous,
          analyzer>>

None == "None"

(***************************************************************************)
(* Arithmetic helpers                                                      *)
(***************************************************************************)
Min(x, y) == IF x <= y THEN x ELSE y
Max(x, y) == IF x >= y THEN x ELSE y
Abs(x) == IF x < 0 THEN -x ELSE x

RECURSIVE ISqrtBetween(_, _, _)
ISqrtBetween(n, lo, hi) ==
    IF lo >= hi THEN lo
    ELSE LET mid == (lo + hi + 1) \div 2
         IN  IF mid * mid <= n THEN ISqrtBetween(n, mid, hi)
                               ELSE ISqrtBetween(n, lo, mid - 1)

\* floor of the square root (np.sqrt, np.linalg.norm on model integers)
ISqrt(n) == ISqrtBetween(n, 0, 46340)

RECURSIVE SumSeq(_)
SumSeq(s) == IF s = <<>> THEN 0 ELSE Head(s) + SumSeq(Tail(s))


(***************************************************************************)
(* Meshes.  A part is a right prism along Z: kind is its footprint         *)
(* ("circle": a trimesh cylinder of 32 sections and diameter a = b;        *)
(* "rectangle": a box a x b; "ellipse": an elliptic cylinder with axes     *)
(* a, b), centred at (cx, cy), of height h; parts are stacked bottom to    *)
(* top from z = 0.  section is what mesh.section / to_planar give at a     *)
(* plane that crosses the part: "ok", or one of the skipped outcomes of    *)
(* slice_mesh ("none": section is None; "empty": no path entities;         *)
(* "invalid": empty or invalid polygon; "raise": an exception).            *)
(***************************************************************************)
Part(kind, a, b, cx, cy, h, section) ==
    [kind |-> kind, a |-> a, b |-> b, cx |-> cx, cy |-> cy, h |-> h,
     section |-> section]

Cyl(d, h) == Part("circle", d, d, 0, 0, h, "ok")

Mesh(parts) == [parts |-> parts]

\* tests/test_layer_wise_stacking.py: base R=3 H=5, body R=7 H=15, cap R=3 H=5
ThreeCylinderStack == Mesh(<<Cyl(24, 20), Cyl(56, 60), Cyl(24, 20)>>)

\* scripts/create_battery_test_case.py: radii 2.5/9.5/9.0/9.5/3.5/2.5 mm,
\* heights 1.5/1.0/50/1.0/2.0/1.5 mm
RealisticBattery ==
    Mesh(<<Cyl(20, 6), Cyl(76, 4), Cyl(72, 200), Cyl(76, 4), Cyl(28, 8),
           Cyl(20, 6)>>)

\* a mesh without vertices (trimesh.Trimesh()): mesh.extents is None
EmptyMesh == Mesh(<<>>)

\* a flat mesh: every vertex in the plane z = 0
FlatMesh == Mesh(<<Cyl(40, 0)>>)

\* single perfect cylinders, flat (H < 2R), cubic (H = 2R) and tall (H > 2R)
CylinderMeshes ==
    { Mesh(<<Cyl(d, h)>>) : d \in {16, 40, 56}, h \in {8, 16, 20, 24, 48} }

IsCylinder(m) ==
    /\ Len(m.parts) = 1
    /\ m.parts[1].kind = "circle"
    /\ m.parts[1].section = "ok"
    /\ m.parts[1].h > 0

\* the parts general stacks are built from
PartCatalog ==
    { Part("circle", 40, 40, 0, 0, 6, "ok"),
      Part("circle", 16, 16, 0, 0, 2, "ok"),
      Part("circle", 38, 38, 0, 0, 2, "ok"),
      Part("rectangle", 16, 12, 2, 0, 2, "ok"),
      Part("rectangle", 40, 24, 0, 0, 6, "ok"),
      Part("ellipse", 40, 20, 0, 0, 4, "ok"),
      Part("circle", 40, 40, 0, 0, 6, "none") }

MaxParts == 3

RECURSIVE Stacks(_)
Stacks(n) ==
    IF n = 0 THEN { <<>> }
    ELSE LET shorter == Stacks(n - 1)
         IN  shorter \cup
             { Append(s, p) : s \in { t \in shorter : Len(t) = n - 1 },
                              p \in PartCatalog }

\* a disc, a thin off-centre boss, a second disc and a plate: four short
\* runs of layers for the merge loop to work on
BossedStack ==
    Mesh(<<Part("circle", 40, 40, 0, 0, 6, "ok"),
           Part("rectangle", 16, 12, 2, 0, 2, "ok"),
           Part("circle", 40, 40, 0, 0, 6, "ok"),
           Part("rectangle", 40, 24, 0, 0, 6, "ok")>>)

\* a disc with a thin pin on either face: one small layer at each end of
\* six
PinnedDisc ==
    Mesh(<<Part("circle", 8, 8, 0, 0, 3, "ok"),
           Part("circle", 40, 40, 0, 0, 6, "ok"),
           Part("circle", 8, 8, 0, 0, 3, "ok")>>)

\* a tall disc carrying a thin off-centre plate, a thin off-centre pin and
\* an elliptic cap: the plate's run of layers is short and can merge with
\* the run below it as well as with the run above it
SteppedStack ==
    Mesh(<<Part("circle", 40, 40, 0, 0, 10, "ok"),
           Part("rectangle", 16, 12, 2, 0, 2, "ok"),
           Part("circle", 16, 16, 12, 0, 2, "ok"),
           Part("ellipse", 40, 20, 0, 0, 4, "ok")>>)

BrokenMeshes ==
    { Mesh(<<Part("circle", 40, 40, 0, 0, 6, k)>>) :
        k \in {"none", "empty", "invalid", "raise"} }

Meshes ==
    { Mesh(s) : s \in Stacks(MaxParts) \ { <<>> } }
    \cup CylinderMeshes \cup BrokenMeshes
    \cup { ThreeCylinderStack, RealisticBattery, BossedStack, PinnedDisc,
           SteppedStack, EmptyMesh, FlatMesh }

\* z-interval [PartLo, PartHi) of part i
RECURSIVE PartLo(_, _)
PartLo(m, i) == IF i = 1 THEN 0 ELSE PartLo(m, i - 1) + m.parts[i - 1].h
PartHi(m, i) == PartLo(m, i) + m.parts[i].h

SetMin(S) == CHOOSE x \in S : \A y \in S : x <= y
SetMax(S) == CHOOSE x \in S : \A y \in S : x >= y

PartIdx(m) == 1 .. Len(m.parts)

\* mesh.bounds along each axis (twice the coordinate for X and Y, so that
\* even diameters keep the arithmetic in integers)
BoundsLo(m, ax) ==
    CASE ax = "X" -> SetMin({ 2 * m.parts[i].cx - m.parts[i].a : i \in PartIdx(m) }) \div 2
      [] ax = "Y" -> SetMin({ 2 * m.parts[i].cy - m.parts[i].b : i \in PartIdx(m) }) \div 2
      [] ax = "Z" -> 0
BoundsHi(m, ax) ==
    CASE ax = "X" -> SetMax({ 2 * m.parts[i].cx + m.parts[i].a : i \in PartIdx(m) }) \div 2
      [] ax = "Y" -> SetMax({ 2 * m.parts[i].cy + m.parts[i].b : i \in PartIdx(m) }) \div 2
      [] ax = "Z" -> PartHi(m, Len(m.parts))

\* mesh.extents: None (here the empty tuple) for a mesh without vertices
Extents(m) ==
    IF Len(m.parts) = 0 THEN <<>>
    ELSE [ax \in {"X", "Y", "Z"} |-> BoundsHi(m, ax) - BoundsLo(m, ax)]

\* mesh.volume: the parts are concatenated, not united, and do not overlap
FootprintArea(kind, a, b) ==
    IF kind = "rectangle" THEN a * b ELSE (3121 * a * b) \div 4000

\* a mesh whose faces are wound the other way round (mesh.invert()):
\* trimesh reports the enclosed volume with a negative sign
InsideOut(m) == [parts |-> m.parts, inside_out |-> TRUE]

MeshVolume(m) ==
    LET enclosed == SumSeq([i \in PartIdx(m) |->
                              FootprintArea(m.parts[i].kind, m.parts[i].a,
                                            m.parts[i].b)
                              * m.parts[i].h])
    IN  IF "inside_out" \in DOMAIN m THEN 0 - enclosed ELSE enclosed

(***************************************************************************)
(* detect_primary_axis: the axis of the SHORTEST bounding-box extent       *)
(* (numpy argmin: the first index of the minimum).                         *)
(***************************************************************************)
detect_primary_axis_argmax(m) ==
    LET e == Extents(m)
    IN  IF e["X"] >= e["Y"] /\ e["X"] >= e["Z"] THEN "X"
        ELSE IF e["Y"] >= e["Z"] THEN "Y" ELSE "Z"

detect_primary_axis(m) ==
    LET e == Extents(m)
    IN  IF e["X"] <= e["Y"] /\ e["X"] <= e["Z"] THEN "X"
        ELSE IF e["Y"] <= e["Z"] THEN "Y" ELSE "Z"


(***************************************************************************)
(* Cross-section polygons and the 2D fits.  A polygon is                   *)
(* [kind, a, b, cx, cy]: the cross-section outline (a regular 32-gon of    *)
(* diameter a for "circle", an a x b rectangle, a 32-gon ellipse with axes *)
(* a, b) centred at (cx, cy) in the plane's frame.                         *)
(*                                                                         *)
(* A "measured" polygon is an outline of any other form: a x b is its      *)
(* minimum rotated rectangle and the values the kernel computes for it     *)
(* (circularity, rectangularity, the qualities of the circle and ellipse   *)
(* fits, the three image metrics of the validator) are carried as fields.  *)
(***************************************************************************)
Polygon(kind, a, b, cx, cy) ==
    [kind |-> kind, a |-> a, b |-> b, cx |-> cx, cy |-> cy]

MeasuredPolygon(a, b, circularity, rectangularity, circle_quality, ellipse_quality, cvm) ==
    [kind |-> "measured", a |-> a, b |-> b, cx |-> 0, cy |-> 0,
     circularity |-> circularity, rectangularity |-> rectangularity,
     circle_quality |-> circle_quality, ellipse_quality |-> ellipse_quality,
     cvm |-> cvm]

\* polygon.area (rectangularity is area / minimum_rotated_rectangle.area)
PolygonArea(p) ==
    IF p.kind = "measured" THEN (p.rectangularity * p.a * p.b) \div 1000
    ELSE FootprintArea(p.kind, p.a, p.b)

\* calculate_shape_metrics: circularity = 4 pi area / perimeter^2,
\* rectangularity = area / minimum_rotated_rectangle.area, aspect_ratio of
\* the rectangle's edges
calculate_shape_metrics(p) ==
    LET x10 == 30 * (p.a + p.b) - ISqrt(100 * (3 * p.a + p.b) * (p.a + 3 * p.b))
        circularity ==
            CASE p.kind = "measured" -> p.circularity
              [] p.kind = "circle" -> 997
              [] p.kind = "rectangle" ->
                   IF p.a + p.b > 0
                   THEN (3142 * p.a * p.b) \div ((p.a + p.b) * (p.a + p.b))
                   ELSE 0
              [] p.kind = "ellipse" ->
                   IF x10 >= 10
                   THEN (4000 * p.a * p.b) \div ((x10 * x10) \div 100)
                   ELSE 0
        rectangularity ==
            CASE p.kind = "measured" -> p.rectangularity
              [] p.kind = "rectangle" -> 1000
              [] OTHER -> 788
        aspect_ratio ==
            IF Min(p.a, p.b) > 0
            THEN (1000 * Max(p.a, p.b)) \div Min(p.a, p.b)
            ELSE 1000
    IN  [circularity |-> circularity, rectangularity |-> rectangularity,
         aspect_ratio |-> aspect_ratio]

\* A fitted primitive carries the fields of all three types; `type` says
\* which are authoritative.  rectangularity is -1 where the dict has no
\* such key (only fit_rectangle_2d sets it).
Primitive(type, p, fit_quality) ==
    [type |-> type,
     center |-> <<p.cx, p.cy>>,
     radius |-> CASE p.kind = "circle" -> p.a \div 2
                  [] p.kind = "rectangle" -> ISqrt(p.a * p.a + p.b * p.b) \div 2
                  [] p.kind \in {"ellipse", "measured"} -> (p.a + p.b) \div 4,
     width |-> IF p.kind \in {"rectangle", "measured"} THEN p.a
               ELSE (9904 * p.a) \div 10000,
     height |-> IF p.kind \in {"rectangle", "measured"} THEN p.b
                ELSE (9904 * p.b) \div 10000,
     major_axis |-> Max(p.a, p.b),
     minor_axis |-> Min(p.a, p.b),
     fit_quality |-> fit_quality,
     rectangularity |-> IF type = "rectangle"
                        THEN calculate_shape_metrics(p).rectangularity ELSE -1,
     metrics |-> calculate_shape_metrics(p),
     cv_confidence |-> -1,
     use_polygon_extrusion |-> FALSE]

\* fit_circle_2d: fit_quality = max(0, 1 - rms_error / radius); the vertices
\* of a regular polygon and the corners of a rectangle are equidistant from
\* the centre (rms_error = 0)
fit_circle_2d(p) ==
    Primitive("circle", p,
              CASE p.kind = "measured" -> p.circle_quality
                [] p.kind = "ellipse" ->
                     Max(0, 1000 - (707 * Abs(p.a - p.b)) \div (p.a + p.b))
                [] OTHER -> 1000)

\* fit_rectangle_2d: fit_quality = polygon.area / min_rect.area
fit_rectangle_2d(p) ==
    Primitive("rectangle", p, calculate_shape_metrics(p).rectangularity)

\* fit_ellipse_2d: fit_quality = min(polygon.area / ellipse_area,
\* ellipse_area / polygon.area), the ellipse spanning the PCA ranges
fit_ellipse_2d(p) ==
    Primitive("ellipse", p,
              CASE p.kind = "measured" -> p.ellipse_quality
                [] p.kind = "rectangle" -> 785
                [] OTHER -> 993)

\* the image metrics of the validator: [ssim, contour_similarity, iou] of
\* the rendered polygon against the rendered primitive, and whether
\* _primitive_to_polygon returned a polygon at all
CvMetrics(ssim, contour_similarity, iou, convertible) ==
    [ssim |-> ssim, contour_similarity |-> contour_similarity, iou |-> iou,
     convertible |-> convertible]

cv_metrics(p, prim) ==
    IF p.kind = "measured" THEN p.cvm
    ELSE IF prim.type = p.kind THEN CvMetrics(980, 990, 990, TRUE)
    ELSE IF {prim.type, p.kind} = {"circle", "ellipse"}
    THEN CvMetrics(800, 700, 600, TRUE)
    ELSE CvMetrics(750, 600, 640, TRUE)

\* ten thousand times 0.4 ssim + 0.3 contour_similarity + 0.3 iou
cv_blend(m) == 4 * m.ssim + 3 * m.contour_similarity + 3 * m.iou

\* CVValidator.validate_primitive_fit(...)['confidence'], in thousandths
\* (rounded down): 0 when the primitive gives no polygon
validate_primitive_fit(p, prim) ==
    LET confidence(m) == IF m.convertible THEN cv_blend(m) \div 10 ELSE 0
    IN  confidence(cv_metrics(p, prim))

\* CVValidator.validate_primitive_fit(...)['valid']: confidence > 0.70
cv_valid(p, prim) ==
    LET valid(m) == m.convertible /\ cv_blend(m) > 7000
    IN  valid(cv_metrics(p, prim))

cv_threshold == 700

\* The 'adjust quality by shape metrics' block of classify_and_fit_2d
adjusted(metrics, c0, r0, e0) ==
    << [c0 EXCEPT !.fit_quality =
           IF metrics.circularity > 900 THEN (@ * 12) \div 10
           ELSE IF metrics.circularity < 800 THEN (@ * 7) \div 10
           ELSE @],
       [r0 EXCEPT !.fit_quality =
           IF metrics.rectangularity > 950 THEN (@ * 13) \div 10
           ELSE IF metrics.rectangularity < 850 THEN (@ * 8) \div 10
           ELSE @],
       [e0 EXCEPT !.fit_quality =
           IF metrics.aspect_ratio > 1500 THEN (@ * 11) \div 10 ELSE @] >>

\* the selection with the three metric rules tried before the hint
select_best_rules_first(metrics, candidates, shape_hint) ==
    LET hinted == { i \in 1..3 : /\ shape_hint /= None
                                 /\ candidates[i].type = shape_hint
                                 /\ candidates[i].fit_quality > 700 }
        highest ==
            CHOOSE i \in 1..3 :
                /\ \A j \in 1..3 : candidates[j].fit_quality <= candidates[i].fit_quality
                /\ \A j \in 1..(i - 1) : candidates[j].fit_quality < candidates[i].fit_quality
    IN  IF metrics.rectangularity > 900 /\ metrics.circularity < 820
        THEN candidates[2]
        ELSE IF metrics.circularity > 900 /\ metrics.rectangularity < 850
             THEN candidates[1]
        ELSE IF metrics.rectangularity > metrics.circularity + 100
             THEN candidates[2]
        ELSE IF hinted /= {} THEN candidates[SetMin(hinted)]
        ELSE candidates[highest]

\* The selection of classify_and_fit_2d among candidates = <<circle,
\* rectangle, ellipse>>: the hint, the three metric rules, the highest
\* adjusted quality (max returns the first maximal candidate)
select_best(metrics, candidates, shape_hint) ==
    LET hinted == { i \in 1..3 : /\ shape_hint /= None
                                 /\ candidates[i].type = shape_hint
                                 /\ candidates[i].fit_quality > 700 }
        highest ==
            CHOOSE i \in 1..3 :
                /\ \A j \in 1..3 : candidates[j].fit_quality <= candidates[i].fit_quality
                /\ \A j \in 1..(i - 1) : candidates[j].fit_quality < candidates[i].fit_quality
    IN  IF hinted /= {} THEN candidates[SetMin(hinted)]
        ELSE IF metrics.rectangularity > 900 /\ metrics.circularity < 820
             THEN candidates[2]
        ELSE IF metrics.circularity > 900 /\ metrics.rectangularity < 850
             THEN candidates[1]
        ELSE IF metrics.rectangularity > metrics.circularity + 100
             THEN candidates[2]
        ELSE candidates[highest]

\* the tail of classify_and_fit_2d flagging a confidence at the threshold
\* as well
validated_at_or_below(best, confidence, cv) ==
    IF cv
    THEN [best EXCEPT !.cv_confidence = confidence,
                      !.use_polygon_extrusion = (confidence <= cv_threshold)]
    ELSE [best EXCEPT !.use_polygon_extrusion =
             ((IF best.rectangularity = -1 THEN 1000
               ELSE best.rectangularity) < 750)]

\* The tail of classify_and_fit_2d: CV validation of the selected primitive
\* when the validator is enabled, else the rectangularity heuristic
\* (best.get('rectangularity', 1.0) < 0.75)
validated(best, confidence, cv) ==
    IF cv
    THEN [best EXCEPT !.cv_confidence = confidence,
                      !.use_polygon_extrusion = (confidence < cv_threshold)]
    ELSE [best EXCEPT !.use_polygon_extrusion =
             ((IF best.rectangularity = -1 THEN 1000
               ELSE best.rectangularity) < 750)]

\* classify_and_fit_2d(polygon, shape_hint)
classify_and_fit_2d(p, shape_hint, cv) ==
    LET fit(metrics) ==
            select_best(metrics,
                        adjusted(metrics, fit_circle_2d(p), fit_rectangle_2d(p),
                                 fit_ellipse_2d(p)),
                        shape_hint)
        check(best) == validated(best, validate_primitive_fit(p, best), cv)
    IN  check(fit(calculate_shape_metrics(p)))


(***************************************************************************)
(* slice_mesh                                                              *)
(***************************************************************************)
\* num_layers = int((z_max - z_min) / layer_height)
NumLayers(m, ax, h) == (BoundsHi(m, ax) - BoundsLo(m, ax)) \div h

\* the common denominator of np.linspace(start, stop, num_layers)
ZDen(m, ax, h) == Max(NumLayers(m, ax, h) - 1, 1)

\* heights[k] (k from 0) of np.linspace(z_min + h, z_max - h, num_layers),
\* as a numerator over ZDen
Height(m, ax, h, k) ==
    (BoundsLo(m, ax) + h) * ZDen(m, ax, h)
    + (IF NumLayers(m, ax, h) >= 2
       THEN k * ((BoundsHi(m, ax) - BoundsLo(m, ax)) - 2 * h)
       ELSE 0)

\* the parts the plane at axial coordinate z / zd crosses; a plane through
\* the interface of two stacked parts cuts the upper one
Crossed(m, ax, z, zd) ==
    CASE ax = "Z" -> { i \in PartIdx(m) :
                         PartLo(m, i) * zd <= z /\ z < PartHi(m, i) * zd }
      [] ax = "X" -> { i \in PartIdx(m) :
                         2 * Abs(z - m.parts[i].cx * zd) < m.parts[i].a * zd }
      [] ax = "Y" -> { i \in PartIdx(m) :
                         2 * Abs(z - m.parts[i].cy * zd) < m.parts[i].b * zd }

\* length of the chord a plane at distance d / zd from the centre cuts from
\* a footprint of extent `along` on the slicing axis and `across` it
Chord(kind, along, across, d, zd) ==
    IF kind = "rectangle" THEN across
    ELSE Max(1, (across * ISqrt(along * along * zd * zd - 4 * d * d))
                 \div (along * zd))

\* the polygon of part i in the plane at z / zd
SectionPolygon(m, ax, i, z, zd) ==
    LET q == m.parts[i]
        zmid == (PartLo(m, i) + PartHi(m, i)) \div 2
    IN  CASE ax = "Z" -> Polygon(q.kind, q.a, q.b, q.cx, q.cy)
          [] ax = "X" -> Polygon("rectangle",
                                 Chord(q.kind, q.a, q.b, z - q.cx * zd, zd),
                                 q.h, q.cy, zmid)
          [] ax = "Y" -> Polygon("rectangle",
                                 Chord(q.kind, q.b, q.a, z - q.cy * zd, zd),
                                 q.h, q.cx, zmid)

\* the closed loops a plane cuts from concatenated parts are separate
\* polygons; polygons_full[0] is the first in the kernel's order, which the
\* model leaves open between the lowest and the highest part crossed
Picks == {"low", "high"}

\* one iteration of the loop of slice_mesh: the layer appended (a tuple of
\* one layer), or nothing when the height is skipped
SliceAt(m, ax, h, k, pick) ==
    LET zd == ZDen(m, ax, h)
        z == Height(m, ax, h, k)
        crossed == Crossed(m, ax, z, zd)
        i == IF pick = "low" THEN SetMin(crossed) ELSE SetMax(crossed)
        polygon_2d == SectionPolygon(m, ax, i, z, zd)
    IN  IF crossed = {} THEN <<>>
        ELSE IF \E j \in crossed : m.parts[j].section /= "ok" THEN <<>>
        ELSE << [layer_id |-> k,
                 z_height |-> z,
                 polygon |-> polygon_2d,
                 area |-> PolygonArea(polygon_2d),
                 centroid |-> <<polygon_2d.cx, polygon_2d.cy>>] >>

RECURSIVE SliceFrom(_, _, _, _, _)
SliceFrom(m, ax, h, k, pick) ==
    IF k >= NumLayers(m, ax, h) THEN <<>>
    ELSE SliceAt(m, ax, h, k, pick) \o SliceFrom(m, ax, h, k + 1, pick)

slice_mesh(m, ax, h, pick) == SliceFrom(m, ax, h, 0, pick)

(***************************************************************************)
(* _filter_boundary_artifacts                                              *)
(***************************************************************************)
RECURSIVE Insert(_, _)
Insert(x, s) ==
    IF s = <<>> THEN <<x>>
    ELSE IF x <= Head(s) THEN <<x>> \o s
    ELSE <<Head(s)>> \o Insert(x, Tail(s))

RECURSIVE Sorted(_)
Sorted(s) == IF s = <<>> THEN <<>> ELSE Insert(Head(s), Sorted(Tail(s)))

\* twice np.median(areas)
Median2(areas) ==
    LET srt == Sorted(areas)
        n == Len(srt)
    IN  IF n % 2 = 1 THEN 2 * srt[(n + 1) \div 2]
        ELSE srt[n \div 2] + srt[n \div 2 + 1]

filter_boundary_artifacts(ls) ==
    LET n == Len(ls)
        median2 == Median2([i \in 1..n |-> ls[i].area])
        \* layer['area'] > 0.10 * median_area
        stable == { i \in 1..n : 20 * ls[i].area > median2 }
        start_idx == IF stable = {} THEN 0 ELSE SetMin(stable) - 1
        end_idx == IF stable = {} THEN n - 1 ELSE SetMax(stable) - 1
    IN  IF n < 5 THEN ls
        ELSE IF median2 = 0 THEN ls
        ELSE IF 5 * start_idx > n \/ 5 * (n - end_idx - 1) > n THEN ls
        ELSE IF end_idx + 1 > start_idx
             THEN SubSeq(ls, start_idx + 1, end_idx + 1)
             ELSE ls


(***************************************************************************)
(* Fuzzy merge decision                                                    *)
(***************************************************************************)
\* area_ratio = min(area_a, area_b) / max(area_a, area_b), kept as a
\* fraction [num, den]; 0 when the larger area is 0
AreaRatio(area_a, area_b) ==
    IF Max(area_a, area_b) > 0
    THEN [num |-> Min(area_a, area_b), den |-> Max(area_a, area_b)]
    ELSE [num |-> 0, den |-> 1]

\* fuzzy_shape_match without its exact-match case
fuzzy_shape_match_without_exact_match(shape_a, shape_b) ==
    IF {shape_a, shape_b} = {"circle", "ellipse"} THEN 700
    ELSE IF {shape_a, shape_b} = {"rectangle", "ellipse"} THEN 500
    ELSE IF {shape_a, shape_b} = {"circle", "rectangle"} THEN 400
    ELSE 100

fuzzy_size_match(area_ratio) ==
    IF 100 * area_ratio.num > 95 * area_ratio.den THEN 1000
    ELSE IF 100 * area_ratio.num > 85 * area_ratio.den THEN 800
    ELSE IF 100 * area_ratio.num > 70 * area_ratio.den THEN 600
    ELSE IF 100 * area_ratio.num > 50 * area_ratio.den THEN 300
    ELSE 0

fuzzy_shape_match(shape_a, shape_b) ==
    IF shape_a = shape_b THEN 1000
    ELSE IF {shape_a, shape_b} = {"circle", "ellipse"} THEN 700
    ELSE IF {shape_a, shape_b} = {"rectangle", "ellipse"} THEN 500
    ELSE IF {shape_a, shape_b} = {"circle", "rectangle"} THEN 400
    ELSE 100

\* fuzzy_alignment(centroid_dist, avg_radius) on the squared distance and on
\* radius_sum4 = 4 * (radius_a + radius_b) = 8 * avg_radius:
\* centroid_dist / avg_radius < t/100  iff  (800/t)^2 * dist^2 < radius_sum4^2
fuzzy_alignment(centroid_dist_sq, radius_sum4) ==
    IF radius_sum4 = 0 THEN 500
    ELSE IF 25600 * centroid_dist_sq < radius_sum4 * radius_sum4 THEN 1000
    ELSE IF 6400 * centroid_dist_sq < radius_sum4 * radius_sum4 THEN 800
    ELSE IF 1600 * centroid_dist_sq < radius_sum4 * radius_sum4 THEN 500
    ELSE 200

\* four times the "radius" should_merge_segments normalises with
Radius4(prim) ==
    CASE prim.type = "circle" -> 4 * prim.radius
      [] prim.type = "rectangle" -> prim.width + prim.height
      [] prim.type = "ellipse" -> prim.major_axis + prim.minor_axis

DistSq(c1, c2) ==
    (c1[1] - c2[1]) * (c1[1] - c2[1]) + (c1[2] - c2[2]) * (c1[2] - c2[2])

\* the decision thresholds of should_merge_segments on a score
MergeDecision(merge_score) ==
    IF merge_score > 700
    THEN [merge |-> TRUE, confidence |-> "high_confidence", score |-> merge_score]
    ELSE IF merge_score > 500
    THEN [merge |-> TRUE, confidence |-> "medium_confidence", score |-> merge_score]
    ELSE IF merge_score > 350
    THEN [merge |-> TRUE, confidence |-> "low_confidence", score |-> merge_score]
    ELSE [merge |-> FALSE, confidence |-> "split_segments", score |-> merge_score]

should_merge_segments_split_at_50(seg_a, seg_b) ==
    LET r == MergeDecision(
                 (400 * fuzzy_size_match(AreaRatio(seg_a.layers[1].area,
                                                   seg_b.layers[1].area))
                  + 350 * fuzzy_shape_match(seg_a.primitive_2d.type,
                                            seg_b.primitive_2d.type)
                  + 250 * fuzzy_alignment(
                              DistSq(seg_a.layers[1].centroid,
                                     seg_b.layers[1].centroid),
                              Radius4(seg_a.primitive_2d)
                              + Radius4(seg_b.primitive_2d))) \div 1000)
    IN  IF r.score > 500 THEN r
        ELSE [merge |-> FALSE, confidence |-> "split_segments", score |-> r.score]

should_merge_segments(seg_a, seg_b) ==
    LET prim_a == seg_a.primitive_2d
        prim_b == seg_b.primitive_2d
        area_a == seg_a.layers[1].area
        area_b == seg_b.layers[1].area
        area_ratio == AreaRatio(area_a, area_b)
        shape_match == fuzzy_shape_match(prim_a.type, prim_b.type)
        centroid_dist_sq == DistSq(seg_a.layers[1].centroid,
                                   seg_b.layers[1].centroid)
        alignment == fuzzy_alignment(centroid_dist_sq,
                                     Radius4(prim_a) + Radius4(prim_b))
        size_match == fuzzy_size_match(area_ratio)
        merge_score ==
            (400 * size_match + 350 * shape_match + 250 * alignment) \div 1000
    IN  MergeDecision(merge_score)


(***************************************************************************)
(* group_similar_layers.  lh is layer_height and msh is min_segment_height,*)
(* both as numerators over zden like every axial coordinate.               *)
(***************************************************************************)
\* vision_results[i].get('shape_detected') when i < len(vision_results)
\* (i counts from 0), else no hint
HintAt(vr, i) == IF i < Len(vr) THEN vr[i + 1] ELSE None

\* layers.index(layer), counting from 0
IndexOf(ls, layer) == SetMin({ i \in 1..Len(ls) : ls[i] = layer }) - 1

\* the segment dict with height = z_end - z_start, the layer thickness left
\* out
Segment_without_layer_height(seg_layers, prim, lh) ==
    [z_start |-> seg_layers[1].z_height,
     z_end |-> seg_layers[Len(seg_layers)].z_height,
     height |-> seg_layers[Len(seg_layers)].z_height - seg_layers[1].z_height,
     num_layers |-> Len(seg_layers),
     layers |-> seg_layers,
     primitive_2d |-> prim,
     shape |-> prim.type]

\* the segment dict built from a run of layers and its representative fit
Segment(seg_layers, prim, lh) ==
    [z_start |-> seg_layers[1].z_height,
     z_end |-> seg_layers[Len(seg_layers)].z_height,
     height |-> (seg_layers[Len(seg_layers)].z_height - seg_layers[1].z_height) + lh,
     num_layers |-> Len(seg_layers),
     layers |-> seg_layers,
     primitive_2d |-> prim,
     shape |-> prim.type]

\* the first layer of a run taken as its representative
RepLayer_first(seg_layers) == seg_layers[1]

\* the layer at index len // 2 (from 0) of a run
RepLayer(seg_layers) == seg_layers[Len(seg_layers) \div 2 + 1]

\* a run closed by the initial pass: its representative is fitted with the
\* hint at the representative's index in the unfiltered layer list
ClosedSegment(seg_layers, ls, vr, cv, lh) ==
    Segment(seg_layers,
            classify_and_fit_2d(RepLayer(seg_layers).polygon,
                                HintAt(vr, IndexOf(ls, RepLayer(seg_layers))),
                                cv),
            lh)

\* the decision of the initial pass for filtered layer i (from 0, i >= 1):
\* the current layer fitted with its hint against the previous layer fitted
\* without a hint
LayerDecision(fl, vr, cv, i) ==
    should_merge_segments(
        [primitive_2d |-> classify_and_fit_2d(fl[i].polygon, None, cv),
         layers |-> <<fl[i]>>],
        [primitive_2d |-> classify_and_fit_2d(fl[i + 1].polygon, HintAt(vr, i), cv),
         layers |-> <<fl[i + 1]>>])

\* the loop `for i in range(1, len(filtered_layers))` from index i on, then
\* the final segment
RECURSIVE InitialPass(_, _, _, _, _, _, _, _)
InitialPass(fl, ls, vr, cv, lh, i, segs, current_segment_layers) ==
    LET step(closed) ==
            IF i >= Len(fl)
            THEN Append(segs, closed)
            ELSE IF LayerDecision(fl, vr, cv, i).merge
            THEN InitialPass(fl, ls, vr, cv, lh, i + 1, segs,
                             Append(current_segment_layers, fl[i + 1]))
            ELSE InitialPass(fl, ls, vr, cv, lh, i + 1, Append(segs, closed),
                             <<fl[i + 1]>>)
    IN  step(ClosedSegment(current_segment_layers, ls, vr, cv, lh))

\* lines 666-777 of group_similar_layers: filter, then the initial pass
group_initial(ls, vr, cv, lh) ==
    LET run(filtered_layers) ==
            IF Len(filtered_layers) = 0 THEN <<>>
            ELSE InitialPass(filtered_layers, ls, vr, cv, lh, 1, <<>>,
                             <<filtered_layers[1]>>)
    IN  IF Len(ls) = 0 THEN <<>> ELSE run(filter_boundary_artifacts(ls))

\* a merge that keeps the layers of its first segment only
Combined_drops_second(seg_a, seg_b, cv, lh) ==
    Segment(seg_a.layers,
            classify_and_fit_2d(RepLayer(seg_a.layers).polygon, None, cv),
            lh)

\* two neighbours of the merge pass combined into one segment
Combined(seg_a, seg_b, cv, lh) ==
    LET refit(combined_layers) ==
            Segment(combined_layers,
                    classify_and_fit_2d(RepLayer(combined_layers).polygon, None, cv),
                    lh)
    IN  refit(seg_a.layers \o seg_b.layers)

\* should_merge or seg['shape'] == other['shape']
Compatible(seg_a, seg_b) ==
    should_merge_segments(seg_a, seg_b).merge \/ seg_a.shape = seg_b.shape

\* a merge pass that tries the previous neighbour before the next one
MergeMode_previous_first(segs, i, new_segments, msh) ==
    IF segs[i].height >= msh THEN "keep"
    ELSE IF Len(new_segments) > 0
            /\ Compatible(new_segments[Len(new_segments)], segs[i]) THEN "prev"
    ELSE IF i < Len(segs) /\ Compatible(segs[i], segs[i + 1]) THEN "next"
    ELSE "keep"

\* what the merge pass does with segments[i]: "next" merges it with the
\* following segment, "prev" with the last segment of new_segments, "keep"
\* appends it unchanged
MergeMode(segs, i, new_segments, msh) ==
    IF segs[i].height >= msh THEN "keep"
    ELSE IF i < Len(segs) /\ Compatible(segs[i], segs[i + 1]) THEN "next"
    ELSE IF Len(new_segments) > 0
            /\ Compatible(new_segments[Len(new_segments)], segs[i]) THEN "prev"
    ELSE "keep"

\* one pass `while i < len(segments)` of the merge loop from index i
\* (from 1) on; the result is [segments, merged]
RECURSIVE MergePass(_, _, _, _, _, _, _)
MergePass(segs, i, new_segments, mrg, cv, lh, msh) ==
    LET step(mode, combined) ==
            CASE mode = "next" ->
                   MergePass(segs, i + 2, Append(new_segments, combined), TRUE,
                             cv, lh, msh)
              [] mode = "prev" ->
                   MergePass(segs, i + 1,
                             [new_segments EXCEPT ![Len(new_segments)] = combined],
                             TRUE, cv, lh, msh)
              [] mode = "keep" ->
                   MergePass(segs, i + 1, Append(new_segments, segs[i]), mrg,
                             cv, lh, msh)
        merge(mode) ==
            step(mode,
                 Combined(IF mode = "next" THEN segs[i]
                          ELSE new_segments[Len(new_segments)],
                          IF mode = "next" THEN segs[i + 1] ELSE segs[i],
                          cv, lh))
    IN  IF i > Len(segs) THEN [segments |-> new_segments, merged |-> mrg]
        ELSE merge(MergeMode(segs, i, new_segments, msh))

max_iterations == 10

\* the loop `while merged and iteration < max_iterations` from its test on
RECURSIVE merge_short_segments(_, _, _, _, _, _)
merge_short_segments(segs, mrg, it, cv, lh, msh) ==
    LET again(r) == merge_short_segments(r.segments, r.merged, it + 1, cv, lh, msh)
    IN  IF mrg /\ it < max_iterations
        THEN again(MergePass(segs, 1, <<>>, FALSE, cv, lh, msh))
        ELSE segs

\* group_similar_layers(layers, vision_results): the initial pass, then the
\* merge loop
group_similar_layers(ls, vr, cv, lh, msh) ==
    merge_short_segments(group_initial(ls, vr, cv, lh), TRUE, 0, cv, lh, msh)


(***************************************************************************)
(* extrude_segment, combine_primitives, calculate_quality.  A solid is     *)
(* [kind, volume, lo2, hi2]: lo2 / (2 zden) and hi2 / (2 zden) are the     *)
(* ends of the interval it occupies along the slicing axis.                *)
(***************************************************************************)
\* None where a solid is expected
NoSolid == [kind |-> None, volume |-> 0, lo2 |-> 0, hi2 |-> 0]

\* the solid extrude_segment builds when no construction step raises
extrude_segment(segment, ax, zd) ==
    LET prim_2d == segment.primitive_2d
        height == segment.height
        z_center2 == segment.z_start + segment.z_end
        rep_layer == RepLayer(segment.layers)
        \* a primitive built along Z and only translated: along X or Y it
        \* spans its in-plane extent `across`, not its height
        translated(across) ==
            IF ax = "Z" THEN [lo2 |-> z_center2 - height, hi2 |-> z_center2 + height]
            ELSE [lo2 |-> z_center2 - across * zd, hi2 |-> z_center2 + across * zd]
    IN  CASE prim_2d.type = "circle" ->
               [kind |-> "cylinder",
                volume |-> (FootprintArea("circle", 2 * prim_2d.radius,
                                          2 * prim_2d.radius) * height) \div zd,
                lo2 |-> translated(2 * prim_2d.radius).lo2,
                hi2 |-> translated(2 * prim_2d.radius).hi2]
          [] prim_2d.type = "rectangle" /\ prim_2d.use_polygon_extrusion
             /\ Len(segment.layers) > 0 ->
               [kind |-> "polygon",
                volume |-> (rep_layer.area * height) \div zd,
                lo2 |-> CASE ax = "Z" -> z_center2 - height
                          [] ax = "Y" -> z_center2 - 2 * height
                          [] ax = "X" -> z_center2,
                hi2 |-> CASE ax = "Z" -> z_center2 + height
                          [] ax = "Y" -> z_center2
                          [] ax = "X" -> z_center2 + 2 * height]
          [] prim_2d.type = "rectangle" /\ ~(prim_2d.use_polygon_extrusion
                                             /\ Len(segment.layers) > 0) ->
               [kind |-> "box",
                volume |-> (prim_2d.width * prim_2d.height * height) \div zd,
                lo2 |-> translated(prim_2d.width).lo2,
                hi2 |-> translated(prim_2d.width).hi2]
          [] prim_2d.type = "ellipse" ->
               [kind |-> "ellipse",
                volume |-> (FootprintArea("ellipse", prim_2d.major_axis,
                                          prim_2d.minor_axis) * height) \div zd,
                lo2 |-> translated(prim_2d.major_axis).lo2,
                hi2 |-> translated(prim_2d.major_axis).hi2]
          [] OTHER -> NoSolid

\* the solids of the segments whose extrusion did not return None
RECURSIVE Extruded(_, _, _, _, _)
Extruded(segs, ax, zd, failed, i) ==
    IF i > Len(segs) THEN <<>>
    ELSE LET primitive_3d == IF i \in failed THEN NoSolid
                             ELSE extrude_segment(segs[i], ax, zd)
             rest == Extruded(segs, ax, zd, failed, i + 1)
         IN  IF primitive_3d = NoSolid THEN rest ELSE <<primitive_3d>> \o rest

\* combine_primitives returning the first solid whatever concatenate does
combine_primitives_first(prims, concat_ok) ==
    IF Len(prims) = 0 THEN NoSolid ELSE prims[1]

\* combine_primitives; concat_ok is whether trimesh.util.concatenate returns
combine_primitives(prims, concat_ok) ==
    IF Len(prims) = 0 THEN NoSolid
    ELSE IF Len(prims) = 1 THEN prims[1]
    ELSE IF concat_ok
         THEN [kind |-> "concatenated",
               volume |-> SumSeq([i \in 1..Len(prims) |-> prims[i].volume]),
               lo2 |-> SetMin({ prims[i].lo2 : i \in 1..Len(prims) }),
               hi2 |-> SetMax({ prims[i].hi2 : i \in 1..Len(prims) })]
         ELSE NoSolid

\* calculate_quality without `max(0, ...)`
calculate_quality_without_max(vol_orig, vol_recon, volume_ok) ==
    IF ~volume_ok THEN 0
    ELSE IF vol_orig <= 0 THEN 0
    ELSE IF Abs(vol_orig - vol_recon) >= vol_orig
         THEN 0 - ((100 * (Abs(vol_orig - vol_recon) - vol_orig)) \div vol_orig)
    ELSE (100 * (vol_orig - Abs(vol_orig - vol_recon))) \div vol_orig

\* calculate_quality on the two volumes; volume_ok is whether reading the
\* volumes returns
calculate_quality(vol_orig, vol_recon, volume_ok) ==
    IF ~volume_ok THEN 0
    ELSE IF vol_orig <= 0 THEN 0
    ELSE IF Abs(vol_orig - vol_recon) >= vol_orig THEN 0
    ELSE (100 * (vol_orig - Abs(vol_orig - vol_recon))) \div vol_orig


(***************************************************************************)
(* reconstruct(mesh, vision_results)                                       *)
(***************************************************************************)
\* stacker configurations and hints of the calls explored: layer_height
\* 0.5 mm; min_segment_height 2.0 mm (default) and 0.5 mm (battery test)
Configs ==
    { [layer_height |-> 2, min_segment_height |-> 8, use_cv_validation |-> FALSE,
       vision_results |-> <<>>],
      [layer_height |-> 2, min_segment_height |-> 2, use_cv_validation |-> FALSE,
       vision_results |-> <<>>],
      [layer_height |-> 2, min_segment_height |-> 8, use_cv_validation |-> TRUE,
       vision_results |-> <<>>],
      [layer_height |-> 2, min_segment_height |-> 8, use_cv_validation |-> FALSE,
       vision_results |-> <<"ellipse", "ellipse", "circle", "rectangle">>] }

\* the value of `result` while reconstruct() has not returned
NoResult == [success |-> FALSE, error |-> "", segments |-> <<>>,
             reconstructed_mesh |-> NoSolid, quality_score |-> 0]

\* the value of `previous` while reconstruct() is called for the first time
NoCall == [pc |-> None, result |-> NoResult, log |-> {}, layer_height |-> 0]

\* the value of `analyzer` while no LayerAnalyzer is at work
NoAnalysis == [layer_data |-> <<>>, i |-> 0, current_group |-> <<>>,
               boxes |-> <<>>]

Failure(error, segs) ==
    [success |-> FALSE, error |-> error, segments |-> segs,
     reconstructed_mesh |-> NoSolid, quality_score |-> 0]

Init ==
    /\ mesh \in Meshes
    /\ \E c \in Configs :
          /\ layer_height = c.layer_height
          /\ min_segment_height = c.min_segment_height
          /\ use_cv_validation = c.use_cv_validation
          /\ vision_results = c.vision_results
    /\ pc = "start"
    /\ axis_name = None
    /\ zden = 1
    /\ layers = <<>>
    /\ segments = <<>>
    /\ merged = FALSE
    /\ iteration = 0
    /\ primitives = <<>>
    /\ reconstructed = NoSolid
    /\ result = NoResult
    /\ log = {}
    /\ previous = NoCall
    /\ analyzer = NoAnalysis

Config == <<mesh, vision_results, layer_height, min_segment_height,
            use_cv_validation>>

\* Step 1: detect_primary_axis; extents.argmin() raises on a mesh without
\* vertices and nothing in reconstruct catches it
DetectAxis ==
    /\ pc = "start"
    /\ IF Extents(mesh) = <<>>
       THEN /\ pc' = "raised"
            /\ log' = log \cup {"detect_primary_axis", "raise:detect_primary_axis"}
            /\ UNCHANGED axis_name
       ELSE /\ pc' = "slice"
            /\ axis_name' = detect_primary_axis(mesh)
            /\ log' = log \cup {"detect_primary_axis"}
    /\ UNCHANGED <<Config, previous, analyzer, zden, layers, segments, merged, iteration,
                   primitives, reconstructed, result>>

\* Step 2: slice_mesh
SliceMesh ==
    /\ pc = "slice"
    /\ \E pick \in Picks :
          /\ layers' = slice_mesh(mesh, axis_name, layer_height, pick)
          \* the kernel's order of the loops, where it made a difference
          /\ log' = log \cup {"slice_mesh"}
                        \cup (IF \A other \in Picks :
                                    slice_mesh(mesh, axis_name, layer_height,
                                               other) = layers'
                              THEN {}
                              ELSE {"polygons_full:" \o pick})
    /\ zden' = ZDen(mesh, axis_name, layer_height)
    /\ pc' = "sliced"
    /\ UNCHANGED <<Config, previous, analyzer, axis_name, segments, merged, iteration, primitives,
                   reconstructed, result>>

\* reconstruct without its `if len(layers) == 0` return: the empty layer
\* list goes on to grouping and extrusion
NoLayers_falls_through ==
    /\ pc = "sliced"
    /\ Len(layers) = 0
    /\ segments' = <<>>
    /\ merged' = FALSE
    /\ iteration' = 0
    /\ pc' = "merge"
    /\ log' = log \cup {"group_similar_layers"}
    /\ UNCHANGED <<Config, previous, analyzer, axis_name, zden, layers, primitives, reconstructed,
                   result>>

\* `if len(layers) == 0: return {...}`
NoLayers ==
    /\ pc = "sliced"
    /\ Len(layers) = 0
    /\ result' = Failure("No valid layers could be extracted", <<>>)
    /\ pc' = "done"
    /\ UNCHANGED <<Config, previous, analyzer, axis_name, zden, layers, segments, merged,
                   iteration, primitives, reconstructed, log>>

\* group_similar_layers emptying the list of hints it was given
GroupLayers_consumes_hints ==
    /\ pc = "sliced"
    /\ Len(layers) > 0
    /\ \E fit_ok \in BOOLEAN :
          IF fit_ok
          THEN /\ segments' = group_initial(layers, vision_results,
                                            use_cv_validation, layer_height * zden)
               /\ merged' = TRUE
               /\ iteration' = 0
               /\ pc' = "merge"
               /\ log' = log \cup {"group_similar_layers"}
          ELSE /\ pc' = "raised"
               /\ log' = log \cup {"group_similar_layers", "raise:classify_and_fit_2d"}
               /\ UNCHANGED <<segments, merged, iteration>>
    /\ vision_results' = <<>>
    /\ UNCHANGED <<mesh, layer_height, min_segment_height, use_cv_validation,
                   previous, analyzer, axis_name, zden, layers, primitives,
                   reconstructed, result>>

\* Step 3, first half: group_similar_layers up to the merge loop.  A fit
\* (classify_and_fit_2d) that raises is caught nowhere.
GroupLayers ==
    /\ pc = "sliced"
    /\ Len(layers) > 0
    /\ \E fit_ok \in BOOLEAN :
          IF fit_ok
          THEN /\ segments' = group_initial(layers, vision_results,
                                            use_cv_validation, layer_height * zden)
               /\ merged' = TRUE
               /\ iteration' = 0
               /\ pc' = "merge"
               /\ log' = log \cup {"group_similar_layers"}
          ELSE /\ pc' = "raised"
               /\ log' = log \cup {"group_similar_layers", "raise:classify_and_fit_2d"}
               /\ UNCHANGED <<segments, merged, iteration>>
    /\ UNCHANGED <<Config, previous, analyzer, axis_name, zden, layers, primitives, reconstructed,
                   result>>

\* one pass of the merge loop without the `merged = False` at its top
MergeShortSegments_keeps_flag ==
    /\ pc = "merge"
    /\ merged /\ iteration < max_iterations
    /\ \E r \in { MergePass(segments, 1, <<>>, FALSE, use_cv_validation,
                            layer_height * zden, min_segment_height * zden) } :
          segments' = r.segments
    /\ iteration' = iteration + 1
    /\ UNCHANGED <<Config, previous, analyzer, pc, axis_name, zden, layers, merged, primitives,
                   reconstructed, result, log>>

\* one pass of `while merged and iteration < max_iterations`
MergeShortSegments ==
    /\ pc = "merge"
    /\ merged /\ iteration < max_iterations
    /\ \E r \in { MergePass(segments, 1, <<>>, FALSE, use_cv_validation,
                            layer_height * zden, min_segment_height * zden) } :
          /\ segments' = r.segments
          /\ merged' = r.merged
    /\ iteration' = iteration + 1
    /\ UNCHANGED <<Config, previous, analyzer, pc, axis_name, zden, layers, primitives,
                   reconstructed, result, log>>

\* the merge loop ends and group_similar_layers returns
GroupReturn ==
    /\ pc = "merge"
    /\ ~(merged /\ iteration < max_iterations)
    /\ pc' = "extrude"
    /\ UNCHANGED <<Config, previous, analyzer, axis_name, zden, layers, segments, merged,
                   iteration, primitives, reconstructed, result, log>>

\* Step 4: extrude every segment; `failed` are the segments whose
\* construction raises inside extrude_segment, which then returns None
ExtrudeSegments ==
    /\ pc = "extrude"
    /\ \E failed \in SUBSET (1..Len(segments)) :
          /\ primitives' = Extruded(segments, axis_name, zden, failed, 1)
          /\ log' = log \cup {"extrude_segment"}
                        \cup (IF failed = {} THEN {} ELSE {"none:extrude_segment"})
                        \cup { "none:extrude_segment:" \o ToString(i) :
                                 i \in failed }
    /\ IF Len(primitives') = 0
       THEN /\ result' = Failure("No primitives could be extruded", segments)
            /\ pc' = "done"
       ELSE /\ pc' = "combine"
            /\ UNCHANGED result
    /\ UNCHANGED <<Config, previous, analyzer, axis_name, zden, layers, segments, merged,
                   iteration, reconstructed>>

\* Step 5: combine_primitives
CombinePrimitives ==
    /\ pc = "combine"
    /\ \E concat_ok \in BOOLEAN :
          /\ (Len(primitives) = 1) => concat_ok
          /\ reconstructed' = combine_primitives(primitives, concat_ok)
          /\ log' = log \cup {"combine_primitives"}
                        \cup (IF concat_ok THEN {} ELSE {"none:combine_primitives"})
    /\ IF reconstructed' = NoSolid
       THEN /\ result' = Failure("Boolean union failed", segments)
            /\ pc' = "done"
       ELSE /\ pc' = "quality"
            /\ UNCHANGED result
    /\ UNCHANGED <<Config, previous, analyzer, axis_name, zden, layers, segments, merged,
                   iteration, primitives>>

\* Step 6: calculate_quality and the successful return
CalculateQuality ==
    /\ pc = "quality"
    /\ \E volume_ok \in BOOLEAN :
          /\ result' = [success |-> TRUE, error |-> "", segments |-> segments,
                        reconstructed_mesh |-> reconstructed,
                        quality_score |->
                            calculate_quality(MeshVolume(mesh),
                                              reconstructed.volume, volume_ok)]
          /\ log' = log \cup {"calculate_quality"}
                        \cup (IF volume_ok THEN {} ELSE {"caught:calculate_quality"})
    /\ pc' = "done"
    /\ UNCHANGED <<Config, previous, analyzer, axis_name, zden, layers, segments, merged,
                   iteration, primitives, reconstructed>>

Next ==
    \/ DetectAxis
    \/ SliceMesh
    \/ NoLayers
    \/ GroupLayers
    \/ MergeShortSegments
    \/ GroupReturn
    \/ ExtrudeSegments
    \/ CombinePrimitives
    \/ CalculateQuality

Spec == Init /\ [][Next]_vars


(***************************************************************************)
(* group_similar_layers and extrude_segment called on a layer list given   *)
(* directly (both are public methods; no mesh is involved): one layer      *)
(* whose polygon is a measured outline, the kernel's values for it drawn   *)
(* from bounded sets.                                                      *)
(***************************************************************************)
\* dimensions of the minimum rotated rectangle: aspect ratio 1.0 and 2.0
FitDims == { <<40, 40>>, <<40, 20>> }

\* values on either side of every cut the fitter makes on the metrics
FitCircularities == {650, 790, 810, 850, 910}
FitRectangularities == {600, 740, 800, 880, 920, 960}
FitCircleQualities == {550, 900}
FitEllipseQualities == {650, 800, 990}

\* validator outcomes: well above, just above, exactly at, just below and
\* well below a confidence of 0.70, and a primitive that gives no polygon
FitCvMetrics ==
    { CvMetrics(900, 900, 900, TRUE), CvMetrics(700, 700, 701, TRUE),
      CvMetrics(700, 700, 700, TRUE), CvMetrics(700, 700, 699, TRUE),
      CvMetrics(400, 500, 300, TRUE), CvMetrics(900, 900, 900, FALSE) }

FitPolygons ==
    { MeasuredPolygon(d[1], d[2], c, r, qc, qe, m) :
        d \in FitDims, c \in FitCircularities,
        r \in FitRectangularities,
        qc \in FitCircleQualities, qe \in FitEllipseQualities,
        m \in FitCvMetrics }

\* vision hints for the layer: none, the three types, and a name that is
\* none of them
FitHints == { <<>>, <<"circle">>, <<"rectangle">>, <<"ellipse">>, <<"triangle">> }

FitInit ==
    /\ mesh = EmptyMesh
    /\ vision_results \in FitHints
    /\ layer_height = 2
    /\ min_segment_height = 8
    /\ use_cv_validation \in BOOLEAN
    /\ pc = "sliced"
    /\ axis_name = "Z"
    /\ zden = 1
    /\ \E q \in FitPolygons :
          \* a polygon of high circularity fills most of its rectangle, and
          \* the image metrics are read only by an enabled validator
          /\ q.circularity > 900 => q.rectangularity >= 740
          /\ use_cv_validation \/ q.cvm = CvMetrics(900, 900, 900, TRUE)
          /\ layers = << [layer_id |-> 0, z_height |-> 2, polygon |-> q,
                          area |-> PolygonArea(q), centroid |-> <<0, 0>>] >>
    /\ segments = <<>>
    /\ merged = FALSE
    /\ iteration = 0
    /\ primitives = <<>>
    /\ reconstructed = NoSolid
    /\ result = NoResult
    /\ log = {}
    /\ previous = NoCall
    /\ analyzer = NoAnalysis

FitNext ==
    \/ GroupLayers
    \/ MergeShortSegments
    \/ GroupReturn
    \/ ExtrudeSegments

FitSpec == FitInit /\ [][FitNext]_vars


(***************************************************************************)
(* reconstruct() called a second time with the same mesh and the same      *)
(* hints, on the same stacker or on one constructed with the same          *)
(* parameters: the fields of the stacker and the arguments are as the      *)
(* first call left them, and every local of reconstruct() is new.          *)
(***************************************************************************)
\* the outcome of the first call is kept for comparison and the locals of
\* the second call are new
NewCall ==
    /\ previous' = [pc |-> pc, result |-> result, log |-> log,
                    layer_height |-> layer_height]
    /\ pc' = "start"
    /\ axis_name' = None
    /\ zden' = 1
    /\ layers' = <<>>
    /\ segments' = <<>>
    /\ merged' = FALSE
    /\ iteration' = 0
    /\ primitives' = <<>>
    /\ reconstructed' = NoSolid
    /\ result' = NoResult
    /\ log' = {}
    /\ UNCHANGED analyzer

ReconstructAgain ==
    /\ pc \in {"done", "raised"}
    /\ previous = NoCall
    /\ NewCall
    /\ UNCHANGED Config

\* the second call made on a stacker constructed with half the layer
\* height, all other parameters equal
ReconstructFiner ==
    /\ pc \in {"done", "raised"}
    /\ previous = NoCall
    /\ layer_height % 2 = 0
    /\ NewCall
    /\ layer_height' = layer_height \div 2
    /\ UNCHANGED <<mesh, vision_results, min_segment_height,
                   use_cv_validation>>

\* two discs joined by a thin neck
NeckedDisc ==
    Mesh(<<Part("circle", 40, 40, 0, 0, 6, "ok"),
           Part("circle", 16, 16, 0, 0, 2, "ok"),
           Part("circle", 40, 40, 0, 0, 6, "ok")>>)

\* the meshes called twice: the test stacks, stacks of two parts, meshes
\* whose sections fail, and cylinders sliced along Z and along X
TwiceMeshes ==
    { ThreeCylinderStack, BossedStack, PinnedDisc, NeckedDisc, EmptyMesh,
      FlatMesh, Mesh(<<Cyl(40, 8)>>), Mesh(<<Cyl(16, 48)>>) }
    \cup BrokenMeshes
    \cup { Mesh(<<p, q>>) : p, q \in PartCatalog }

TwiceInit ==
    /\ mesh \in TwiceMeshes
    /\ Init

TwiceNext ==
    \/ Next
    \/ ReconstructAgain
    \/ ReconstructFiner

TwiceSpec == TwiceInit /\ [][TwiceNext]_vars


(***************************************************************************)
(* calculate_quality called on two meshes given directly (a public         *)
(* method): originals without volume, the right way round and inside out,  *)
(* and reconstructions whose volume is at, around, below and beyond every  *)
(* multiple of the original's that the formula distinguishes.              *)
(***************************************************************************)
QualityMeshes ==
    { EmptyMesh, FlatMesh, Mesh(<<Cyl(16, 8)>>), Mesh(<<Cyl(40, 20)>>),
      InsideOut(Mesh(<<Cyl(16, 8)>>)), InsideOut(Mesh(<<Cyl(40, 20)>>)) }

\* eighths of an original's volume from -1 to 3 times it, and one unit
\* either side of each
QualityVolumes ==
    UNION { { (MeshVolume(m) * k) \div 8 + d : k \in (0 - 8)..24,
                                               d \in {0 - 1, 0, 1} } :
            m \in { Mesh(<<Cyl(16, 8)>>), Mesh(<<Cyl(40, 20)>>) } }

QualityInit ==
    /\ mesh \in QualityMeshes
    /\ vision_results = <<>>
    /\ layer_height = 2
    /\ min_segment_height = 8
    /\ use_cv_validation = FALSE
    /\ pc = "quality"
    /\ axis_name = "Z"
    /\ zden = 1
    /\ layers = <<>>
    /\ segments = <<>>
    /\ merged = FALSE
    /\ iteration = 0
    /\ primitives = <<>>
    /\ \E v \in QualityVolumes :
          reconstructed = [kind |-> "concatenated", volume |-> v,
                           lo2 |-> 0, hi2 |-> 0]
    /\ result = NoResult
    /\ log = {}
    /\ previous = NoCall
    /\ analyzer = NoAnalysis

QualityNext == CalculateQuality

QualitySpec == QualityInit /\ [][QualityNext]_vars


(***************************************************************************)
(* LayerAnalyzer._group_layers_into_boxes(layer_data).  A layer region is  *)
(* the dict _analyze_layer builds from the bounding box of one cluster of  *)
(* one layer: lengths in mm, z in units of the analyzer's layer_height,    *)
(* center2 twice the centre.  A box is the dict of _finalize_box with its  *)
(* dimensions kept as sums over the group (dimensions_n = n_layers *       *)
(* dimensions); `first` is the position in layer_data of the group's first *)
(* region, which the dict does not hold and the properties refer to.       *)
(***************************************************************************)
\* LayerAnalyzer.layer_height, in its own unit
analyzer_layer_height == 1

Region(z, x_min, y_min, x_max, y_max) ==
    [z |-> z,
     bounds |-> <<x_min, y_min, x_max, y_max>>,
     width |-> x_max - x_min,
     height |-> y_max - y_min,
     area |-> (x_max - x_min) * (y_max - y_min),
     center2 |-> <<x_min + x_max, y_min + y_max>>]

\* _compute_bbox_similarity: the IoU of two bounding boxes, as a fraction
compute_bbox_similarity(bbox1, bbox2) ==
    LET x_inter_min == Max(bbox1[1], bbox2[1])
        x_inter_max == Min(bbox1[3], bbox2[3])
        y_inter_min == Max(bbox1[2], bbox2[2])
        y_inter_max == Min(bbox1[4], bbox2[4])
        inter_area == (x_inter_max - x_inter_min) * (y_inter_max - y_inter_min)
        area1 == (bbox1[3] - bbox1[1]) * (bbox1[4] - bbox1[2])
        area2 == (bbox2[3] - bbox2[1]) * (bbox2[4] - bbox2[2])
        union_area == area1 + area2 - inter_area
    IN  IF x_inter_max < x_inter_min \/ y_inter_max < y_inter_min
        THEN [num |-> 0, den |-> 1]
        ELSE IF union_area > 0 THEN [num |-> inter_area, den |-> union_area]
        ELSE [num |-> 0, den |-> 1]

\* should_group without the test on the gap in z
should_group_without_continuity(prev_layer, layer) ==
    LET bbox_similarity == compute_bbox_similarity(prev_layer.bounds, layer.bounds)
    IN  /\ 10 * bbox_similarity.num > 8 * bbox_similarity.den
        /\ DistSq(layer.center2, prev_layer.center2) < 100
        /\ 100 * 1000000 * Abs(layer.area - prev_layer.area)
               < 15 * (1000000 * prev_layer.area + 1)

\* should_group: bbox_similarity > 0.8, z_gap <= 2 layer_height,
\* position_change < 5.0 (on twice the centres: squared distance < 100) and
\* size_change = |area - prev area| / (prev area + 1e-6) < 0.15
should_group(prev_layer, layer) ==
    LET bbox_similarity == compute_bbox_similarity(prev_layer.bounds, layer.bounds)
        z_gap == layer.z - prev_layer.z
    IN  /\ 10 * bbox_similarity.num > 8 * bbox_similarity.den
        /\ z_gap <= analyzer_layer_height * 2
        /\ DistSq(layer.center2, prev_layer.center2) < 100
        /\ 100 * 1000000 * Abs(layer.area - prev_layer.area)
               < 15 * (1000000 * prev_layer.area + 1)

\* _finalize_box(layer_group); the centre of the box is left out
finalize_box(layer_group, first) ==
    LET n == Len(layer_group)
        z_values == { layer_group[k].z : k \in 1..n }
    IN  [dimensions_n |->
             << SumSeq([k \in 1..n |-> layer_group[k].width]),
                SumSeq([k \in 1..n |-> layer_group[k].height]),
                n * (SetMax(z_values) - SetMin(z_values)) >>,
         z_range |-> <<SetMin(z_values), SetMax(z_values)>>,
         n_layers |-> n,
         shape_type |-> "box",
         confidence |-> 95,
         first |-> first]

\* box['dimensions'].sum() > 10
LargeEnough(box) ==
    box.dimensions_n[1] + box.dimensions_n[2] + box.dimensions_n[3]
        > 10 * box.n_layers

\* `boxes` after a group is closed: finalized if it has more than 2 layers,
\* appended if the box is large enough
CloseGroup(boxes, current_group, first) ==
    IF Len(current_group) > 2 /\ LargeEnough(finalize_box(current_group, first))
    THEN Append(boxes, finalize_box(current_group, first))
    ELSE boxes

\* bounding boxes of the regions grouped: a 5 x 20 block, the same block
\* grown by exactly 15% in area, and a 2 x 5 rib
BoxRects == { <<0, 0, 5, 20>>, <<0, 0, 5, 23>>, <<0, 0, 2, 5>> }

\* z of a region minus z of the one before it: the next layer, or a layer
\* after two that gave no region
ZSteps == {1, 3}

MaxRegions == 5

\* the lists of at most n regions in the order analyze_layers collects them
RECURSIVE LayerLists(_)
LayerLists(n) ==
    IF n = 0 THEN { <<>> }
    ELSE LET shorter == LayerLists(n - 1)
         IN  shorter \cup
             { Append(t, Region(IF t = <<>> THEN 0 ELSE t[Len(t)].z + dz,
                                r[1], r[2], r[3], r[4])) :
                 t \in { u \in shorter : Len(u) = n - 1 },
                 r \in BoxRects, dz \in ZSteps }

BoxInit ==
    /\ mesh = EmptyMesh
    /\ vision_results = <<>>
    /\ layer_height = 2
    /\ min_segment_height = 8
    /\ use_cv_validation = FALSE
    /\ pc = "group_boxes"
    /\ axis_name = "Z"
    /\ zden = 1
    /\ layers = <<>>
    /\ segments = <<>>
    /\ merged = FALSE
    /\ iteration = 0
    /\ primitives = <<>>
    /\ reconstructed = NoSolid
    /\ result = NoResult
    /\ log = {}
    /\ previous = NoCall
    /\ \E layer_data \in LayerLists(MaxRegions) :
          analyzer = [layer_data |-> layer_data, i |-> 0,
                      current_group |-> <<>>, boxes |-> <<>>]

\* `if not layer_data: return []`, else the first group is opened
BeginGroups ==
    /\ pc = "group_boxes"
    /\ IF analyzer.layer_data = <<>>
       THEN /\ pc' = "boxes_returned"
            /\ UNCHANGED analyzer
       ELSE /\ pc' = "box_loop"
            /\ analyzer' = [analyzer EXCEPT
                                !.current_group = <<analyzer.layer_data[1]>>,
                                !.i = 1]
    /\ UNCHANGED <<Config, axis_name, zden, layers, segments, merged,
                   iteration, primitives, reconstructed, result, log, previous>>

\* one iteration of `for i in range(1, len(layer_data))`
GroupNextLayer ==
    /\ pc = "box_loop"
    /\ analyzer.i < Len(analyzer.layer_data)
    /\ LET layer == analyzer.layer_data[analyzer.i + 1]
           prev_layer == analyzer.layer_data[analyzer.i]
           current_group == analyzer.current_group
       IN  analyzer' =
               IF should_group(prev_layer, layer)
               THEN [analyzer EXCEPT
                         !.current_group = Append(current_group, layer),
                         !.i = analyzer.i + 1]
               ELSE [analyzer EXCEPT
                         !.boxes = CloseGroup(analyzer.boxes, current_group,
                                              analyzer.i + 1 - Len(current_group)),
                         !.current_group = <<layer>>,
                         !.i = analyzer.i + 1]
    /\ UNCHANGED <<Config, pc, axis_name, zden, layers, segments, merged,
                   iteration, primitives, reconstructed, result, log, previous>>

\* the last group is finalized and `boxes` returned
FinalizeLastGroup ==
    /\ pc = "box_loop"
    /\ analyzer.i >= Len(analyzer.layer_data)
    /\ analyzer' = [analyzer EXCEPT
                        !.boxes = CloseGroup(analyzer.boxes, analyzer.current_group,
                                             analyzer.i + 1
                                                 - Len(analyzer.current_group))]
    /\ pc' = "boxes_returned"
    /\ UNCHANGED <<Config, axis_name, zden, layers, segments, merged,
                   iteration, primitives, reconstructed, result, log, previous>>

BoxNext ==
    \/ BeginGroups
    \/ GroupNextLayer
    \/ FinalizeLastGroup

BoxSpec == BoxInit /\ [][BoxNext]_vars


(***************************************************************************)
(* Properties of reconstruct().  `Returned` says the call has returned its *)
(* result dict, `Raised` that an exception left it.                        *)
(***************************************************************************)
Returned == pc = "done"
Raised == pc = "raised"

\* steps of the call that failed (raised inside, or returned None)
Faults ==
    log \cap {"raise:detect_primary_axis", "raise:classify_and_fit_2d",
              "none:extrude_segment", "none:combine_primitives",
              "caught:calculate_quality"}

\* C1: reconstruct() never lets an exception escape, whatever the mesh and
\* whichever inner step fails; in particular a 2D fit that fails on one
\* layer during grouping does not abort the call.
C1_NoExceptionEscapes == ~Raised

\* C2: when slicing yields zero valid layers (in particular for a mesh of
\* zero range along the slicing axis) the call does not raise and returns
\* success = false, a non-empty error, segments = [], reconstructed_mesh =
\* None and quality_score = 0, and neither grouping nor extrusion has run.
C2_ZeroLayersFail ==
    ("slice_mesh" \in log /\ Len(layers) = 0) =>
        /\ pc \in {"sliced", "done"}
        /\ log \cap {"group_similar_layers", "extrude_segment"} = {}
        /\ Returned =>
              /\ result.success = FALSE
              /\ result.error /= ""
              /\ result.segments = <<>>
              /\ result.reconstructed_mesh = NoSolid
              /\ result.quality_score = 0

\* the flat mesh (zero range along the slicing axis) has been sliced into
\* no layer and the call has returned
C2_Witness ==
    /\ Returned
    /\ mesh = FlatMesh
    /\ BoundsHi(mesh, axis_name) = BoundsLo(mesh, axis_name)
    /\ "slice_mesh" \in log
    /\ Len(layers) = 0

\* C3: a segment whose extrusion returns None contributes no solid and
\* does not abort the call; the call succeeds with a non-null mesh when at
\* least one segment extruded and the combination succeeded, and fails
\* with a non-empty error, reconstructed_mesh = None and quality_score = 0
\* exactly when no segment extruded or the combination failed.
C3_ExtrusionFailures ==
    ("extrude_segment" \in log) =>
        /\ ~Raised
        /\ Len(primitives) <= Len(segments)
        /\ ("none:extrude_segment" \in log) => Len(primitives) < Len(segments)
        /\ Returned =>
              /\ result.success <=>
                     (Len(primitives) >= 1 /\ "none:combine_primitives" \notin log)
              /\ result.success => result.reconstructed_mesh /= NoSolid
              /\ ~result.success =>
                     /\ result.error /= ""
                     /\ result.reconstructed_mesh = NoSolid
                     /\ result.quality_score = 0

\* one segment failed to extrude, another extruded, and the call succeeded
C3_Witness ==
    /\ Returned
    /\ "none:extrude_segment" \in log
    /\ 1 <= Len(primitives) /\ Len(primitives) < Len(segments)
    /\ result.success
    /\ result.reconstructed_mesh /= NoSolid


(***************************************************************************)
(* The merge decision as the specification states it, in thousandths.      *)
(***************************************************************************)
\* size membership: 1.0/0.8/0.6/0.3 for area ratio > 0.95/0.85/0.70/0.50
StatedSize(area_a, area_b) ==
    LET lo == Min(area_a, area_b)
        hi == Max(area_a, area_b)
    IN  IF hi = 0 THEN 0
        ELSE IF 100 * lo > 95 * hi THEN 1000
        ELSE IF 100 * lo > 85 * hi THEN 800
        ELSE IF 100 * lo > 70 * hi THEN 600
        ELSE IF 100 * lo > 50 * hi THEN 300
        ELSE 0

\* shape membership
StatedShape(shape_a, shape_b) ==
    CASE shape_a = shape_b -> 1000
      [] {shape_a, shape_b} = {"circle", "ellipse"} -> 700
      [] {shape_a, shape_b} = {"rectangle", "ellipse"} -> 500
      [] {shape_a, shape_b} = {"circle", "rectangle"} -> 400
      [] OTHER -> 100

\* alignment membership: 1.0/0.8/0.5 for dist / avg_radius < 0.05/0.10/0.20
\* with avg_radius = radius_sum4 / 8, else 0.2
StatedAlignment(dist_sq, radius_sum4) ==
    IF 160 * 160 * dist_sq < radius_sum4 * radius_sum4 THEN 1000
    ELSE IF 80 * 80 * dist_sq < radius_sum4 * radius_sum4 THEN 800
    ELSE IF 40 * 40 * dist_sq < radius_sum4 * radius_sum4 THEN 500
    ELSE 200

StatedScore(seg_a, seg_b) ==
    (400 * StatedSize(seg_a.layers[1].area, seg_b.layers[1].area)
     + 350 * StatedShape(seg_a.primitive_2d.type, seg_b.primitive_2d.type)
     + 250 * StatedAlignment(DistSq(seg_a.layers[1].centroid,
                                    seg_b.layers[1].centroid),
                             Radius4(seg_a.primitive_2d)
                             + Radius4(seg_b.primitive_2d))) \div 1000

StatedLabel(score) ==
    IF score > 700 THEN "high_confidence"
    ELSE IF score > 500 THEN "medium_confidence"
    ELSE IF score > 350 THEN "low_confidence"
    ELSE "split_segments"

AgreesWithStated(seg_a, seg_b) ==
    /\ should_merge_segments(seg_a, seg_b).score = StatedScore(seg_a, seg_b)
    /\ should_merge_segments(seg_a, seg_b).confidence
           = StatedLabel(StatedScore(seg_a, seg_b))
    /\ should_merge_segments(seg_a, seg_b).merge
           <=> (StatedScore(seg_a, seg_b) > 350)

\* the one-layer segment the initial pass compares (lines 696-706)
TempSeg(layer, shape_hint) ==
    [primitive_2d |-> classify_and_fit_2d(layer.polygon, shape_hint,
                                          use_cv_validation),
     layers |-> <<layer>>]

\* the label should_merge_segments gives to layers i, i + 1 (from 1) of the
\* sliced mesh
LabelAt(i) ==
    should_merge_segments(TempSeg(layers[i], None),
                          TempSeg(layers[i + 1], HintAt(vision_results, i))).confidence

\* C4: should_merge_segments returns score = 0.40 size + 0.35 shape + 0.25
\* alignment of the stated membership tables, and merge = true labelled
\* high_confidence iff score > 0.70, medium_confidence iff 0.50 < score <=
\* 0.70, low_confidence iff 0.35 < score <= 0.50, merge = false
\* (split_segments) iff score <= 0.35; on every pair of neighbouring layers
\* of a sliced mesh and every pair of neighbouring segments.
C4_MergeScore ==
    /\ pc = "sliced" =>
          \A i \in 1..(Len(layers) - 1) :
              AgreesWithStated(TempSeg(layers[i], None),
                               TempSeg(layers[i + 1], HintAt(vision_results, i)))
    /\ pc = "merge" =>
          \A i \in 1..(Len(segments) - 1) :
              AgreesWithStated(segments[i], segments[i + 1])

\* a sliced mesh whose neighbouring layers get three different labels, two
\* of them on either side of the 0.35 threshold
C4_Witness ==
    /\ pc = "sliced"
    /\ \E i \in 1..(Len(layers) - 1) : LabelAt(i) = "low_confidence"
    /\ \E i \in 1..(Len(layers) - 1) : LabelAt(i) = "high_confidence"
    /\ \E i \in 1..(Len(layers) - 1) : LabelAt(i) = "split_segments"


(***************************************************************************)
(* Grouping.                                                               *)
(***************************************************************************)
\* group_similar_layers has returned its segments
Grouped == pc \in {"extrude", "combine", "quality", "done"} /\ "group_similar_layers" \in log

\* C5: during layer-by-layer grouping two consecutive layers whose area
\* ratio min/max is <= 0.50 are always split: the later layer starts a new
\* segment.  Stated on the segments of the initial pass: no segment holds
\* two consecutive layers of area ratio <= 0.50.
C5_LargeAreaChangeSplits ==
    (pc = "merge" /\ iteration = 0) =>
        \A s \in 1..Len(segments) :
            \A k \in 1..(Len(segments[s].layers) - 1) :
                2 * Min(segments[s].layers[k].area, segments[s].layers[k + 1].area)
                    > Max(segments[s].layers[k].area, segments[s].layers[k + 1].area)

\* C6: the stack of three coaxial cylinders (radius 3 / height 5, radius 7 /
\* height 15, radius 3 / height 5; layer_height 0.5, min_segment_height 2.0)
\* gives exactly 3 segments, the middle one with the radius nearest 7 and
\* the end ones with the radius nearest 3 (lengths in units of 0.25 mm).
C6_ThreeCylinderStack ==
    (Grouped /\ mesh = ThreeCylinderStack /\ layer_height = 2
        /\ min_segment_height = 8) =>
        /\ Len(segments) = 3
        /\ \A s \in {1, 3} :
              Abs(segments[s].primitive_2d.radius - 12)
                  < Abs(segments[s].primitive_2d.radius - 28)
        /\ Abs(segments[2].primitive_2d.radius - 28)
               < Abs(segments[2].primitive_2d.radius - 12)

\* a segment boundary lies at the interface above part j of the mesh
BoundaryAbove(j) ==
    /\ axis_name = "Z"
    /\ \E s \in 1..(Len(segments) - 1) :
          /\ segments[s].z_end < PartHi(mesh, j) * zden
          /\ PartHi(mesh, j) * zden <= segments[s + 1].z_start

\* C7: the six-part battery (radii 2.5/9.5/9.0/9.5/3.5/2.5, heights
\* 1.5/1.0/50/1.0/2.0/1.5; layer_height 0.5, min_segment_height 0.5) gives
\* at least 3 segments, with boundaries at least at the radius changes
\* 2.5 -> 9.5 (above part 1) and 9.5 -> 3.5 (above part 4).
C7_RealisticBattery ==
    (Grouped /\ mesh = RealisticBattery /\ layer_height = 2
        /\ min_segment_height = 2) =>
        /\ Len(segments) >= 3
        /\ BoundaryAbove(1)
        /\ BoundaryAbove(4)

FlatTallEnough(m) ==
    /\ IsCylinder(m)
    /\ m.parts[1].h < m.parts[1].a
    /\ m.parts[1].h > 10 * layer_height

C9_MergeLoop ==
    [][/\ (pc = "merge" /\ pc' = "merge") =>
             /\ merged /\ iteration < max_iterations
             /\ iteration' = iteration + 1
             /\ iteration' <= max_iterations
             /\ merged' => Len(segments') < Len(segments)
             /\ ~merged' => segments' = segments
       /\ (pc = "merge" /\ ~merged) => pc' = "extrude"
       /\ (pc = "merge" /\ pc' /= "merge") => (pc' = "extrude" /\ segments' = segments)
      ]_vars

\* two passes merged, a third pass found nothing to merge and the loop is
\* about to be left
C9_Witness ==
    /\ pc = "merge"
    /\ iteration = 3
    /\ ~merged
    /\ Len(segments) >= 1

\* C10: every segment of group_similar_layers, from the initial pass or
\* from a merge, has z_start <= z_end, z_start and z_end the z_height of
\* its first and last layer, height = (z_end - z_start) + layer_height >=
\* layer_height, num_layers = len(layers) >= 1 and shape =
\* primitive_2d.type.
C10_SegmentInvariant ==
    \A s \in 1..Len(segments) :
        /\ segments[s].z_start <= segments[s].z_end
        /\ segments[s].num_layers = Len(segments[s].layers)
        /\ segments[s].num_layers >= 1
        /\ segments[s].z_start = segments[s].layers[1].z_height
        /\ segments[s].z_end = segments[s].layers[Len(segments[s].layers)].z_height
        /\ segments[s].height
               = (segments[s].z_end - segments[s].z_start) + layer_height * zden
        /\ segments[s].height >= layer_height * zden
        /\ segments[s].shape = segments[s].primitive_2d.type

\* a pass of the merge loop has merged two segments and the list still
\* holds a segment of several layers next to another segment
C10_Witness ==
    /\ pc = "merge"
    /\ iteration = 1
    /\ merged
    /\ Len(segments) >= 2
    /\ \E s \in 1..Len(segments) : segments[s].num_layers >= 2


(***************************************************************************)
(* Contiguity of the layers of a segment.                                  *)
(***************************************************************************)
\* C11: inside every segment of group_similar_layers two consecutive layers
\* are at most 2 layer_height apart in z_height; slice heights the slicer
\* skipped are never bridged inside one segment.
C11_NoBridgedGaps ==
    \A s \in 1..Len(segments) :
        \A k \in 1..(Len(segments[s].layers) - 1) :
            segments[s].layers[k + 1].z_height - segments[s].layers[k].z_height
                <= 2 * layer_height * zden


(***************************************************************************)
(* _filter_boundary_artifacts.                                             *)
(***************************************************************************)
\* slice_mesh has returned `layers`
Sliced == pc \notin {"start", "slice", "raised"} \/ "slice_mesh" \in log

\* C12: _filter_boundary_artifacts removes only a leading run and a
\* trailing run of layers whose area is below 10% of the median area, and
\* never more than 20% of all input layers in total.
C12_FilterCap ==
    Sliced =>
        LET n == Len(layers)
            trimmed(f, median2) ==
                \E i \in 0..n, j \in 0..n :
                    /\ i + j <= n
                    /\ f = SubSeq(layers, i + 1, n - j)
                    /\ \A k \in (1..i) \cup ((n - j + 1)..n) :
                          20 * layers[k].area < median2
                    /\ 5 * (i + j) <= n
        IN  trimmed(filter_boundary_artifacts(layers),
                    IF n = 0 THEN 0 ELSE Median2([k \in 1..n |-> layers[k].area]))


(***************************************************************************)
(* A degenerate layer at an end of the slice sequence.                     *)
(***************************************************************************)
\* a layer of near-zero area (a 0.25 mm x 0.25 mm sliver) at axial
\* coordinate z, its centroid at c
ArtifactLayer(id, z, c) ==
    [layer_id |-> id, z_height |-> z,
     polygon |-> Polygon("rectangle", 1, 1, c[1], c[2]),
     area |-> 1, centroid |-> c]

\* the number of segments group_similar_layers returns for a layer list in
\* the configuration of the call
NumSegments(ls) ==
    Len(group_similar_layers(ls, vision_results, use_cv_validation,
                             layer_height * zden, min_segment_height * zden))

\* C13: one near-zero-area layer inserted at the very start or at the very
\* end of a layer sequence of any length leaves the number of segments of
\* group_similar_layers unchanged (calls without vision hints, so that the
\* insertion does not shift any hint).
C13_ArtifactKeepsCount ==
    (Sliced /\ Len(layers) > 0 /\ vision_results = <<>>) =>
        LET same(count) ==
                \A c \in { <<0, 0>>, <<12, 0>> } :
                    /\ NumSegments(<<ArtifactLayer(-1,
                                        layers[1].z_height - layer_height * zden, c)>>
                                   \o layers) = count
                    /\ NumSegments(Append(layers,
                                     ArtifactLayer(layers[Len(layers)].layer_id + 1,
                                        layers[Len(layers)].z_height
                                            + layer_height * zden, c))) = count
        IN  same(NumSegments(layers))


(***************************************************************************)
(* The selection policy of classify_and_fit_2d.                            *)
(***************************************************************************)
PrimitiveTypes == {"circle", "rectangle", "ellipse"}

\* the adjusted fit_quality of each type for polygon p, as stated: circle
\* x1.2 if circularity > 0.90, x0.7 if < 0.80; rectangle x1.3 if
\* rectangularity > 0.95, x0.8 if < 0.85; ellipse x1.1 if aspect_ratio > 1.5
StatedQuality(p) ==
    LET m == calculate_shape_metrics(p)
    IN  [t \in PrimitiveTypes |->
           CASE t = "circle" ->
                  IF m.circularity > 900
                  THEN (fit_circle_2d(p).fit_quality * 12) \div 10
                  ELSE IF m.circularity < 800
                  THEN (fit_circle_2d(p).fit_quality * 7) \div 10
                  ELSE fit_circle_2d(p).fit_quality
             [] t = "rectangle" ->
                  IF m.rectangularity > 950
                  THEN (fit_rectangle_2d(p).fit_quality * 13) \div 10
                  ELSE IF m.rectangularity < 850
                  THEN (fit_rectangle_2d(p).fit_quality * 8) \div 10
                  ELSE fit_rectangle_2d(p).fit_quality
             [] t = "ellipse" ->
                  IF m.aspect_ratio > 1500
                  THEN (fit_ellipse_2d(p).fit_quality * 11) \div 10
                  ELSE fit_ellipse_2d(p).fit_quality]

\* the types the stated policy allows for polygon p under a hint: rules
\* (1) to (4) name one type, rule (5) any type of highest adjusted quality
StatedTypes(p, hint, m, q) ==
    IF hint \in PrimitiveTypes /\ q[hint] > 700 THEN {hint}
    ELSE IF m.rectangularity > 900 /\ m.circularity < 820 THEN {"rectangle"}
    ELSE IF m.circularity > 900 /\ m.rectangularity < 850 THEN {"circle"}
    ELSE IF m.rectangularity > m.circularity + 100 THEN {"rectangle"}
    ELSE { t \in PrimitiveTypes : \A u \in PrimitiveTypes : q[u] <= q[t] }

\* the one layer of the list has been fitted and stands as a segment
Fitted == Len(layers) = 1 /\ Len(segments) = 1

\* C14: classify_and_fit_2d selects by the first matching rule in the order
\* hint (quality > 0.7), rectangle rule, circle rule, rectangle-over-circle
\* rule, highest adjusted quality; a hint that names no type, or whose
\* candidate does not pass 0.7, gives the result of no hint.
C14_SelectionPolicy ==
    Fitted =>
        LET p == layers[1].polygon
            hint == HintAt(vision_results, 0)
            agrees(best, q) ==
                /\ best.type \in StatedTypes(p, hint, calculate_shape_metrics(p), q)
                /\ best.fit_quality = q[best.type]
                /\ (hint \notin PrimitiveTypes \/ q[hint] <= 700) =>
                       best.type = classify_and_fit_2d(p, None, use_cv_validation).type
        IN  agrees(segments[1].primitive_2d, StatedQuality(p))

\* a hinted circle whose adjusted quality does not pass 0.7, on a polygon
\* that only the rectangle-over-circle rule decides
C14_Witness ==
    /\ Fitted
    /\ vision_results = <<"circle">>
    /\ StatedQuality(layers[1].polygon)["circle"] <= 700
    /\ layers[1].polygon.rectangularity <= 900
    /\ layers[1].polygon.rectangularity > layers[1].polygon.circularity + 100
    /\ StatedQuality(layers[1].polygon)["ellipse"] > 1000
    /\ segments[1].shape = "rectangle"


\* C15: the fit_quality of every primitive classify_and_fit_2d returns lies
\* in [0, 1] (0 .. 1000 thousandths), whatever its type and the metrics.
C15_FitQualityInUnitInterval ==
    \A s \in 1..Len(segments) :
        /\ segments[s].primitive_2d.fit_quality >= 0
        /\ segments[s].primitive_2d.fit_quality <= 1000


(***************************************************************************)
(* Polygon extrusion and the validator's gate.                             *)
(***************************************************************************)
\* every segment has been extruded and none of the extrusions failed:
\* primitives[s] is the solid of segments[s]
ExtrudedAll ==
    /\ "extrude_segment" \in log
    /\ "none:extrude_segment" \notin log
    /\ Len(primitives) = Len(segments)

\* the solid is the extrusion of the actual polygon of the segment's middle
\* layer to the segment height
IsPolygonExtrusion(solid, segment) ==
    /\ solid.kind = "polygon"
    /\ solid.volume = (RepLayer(segment.layers).area * segment.height) \div zden

\* C16: whenever the representative primitive of a segment carries
\* use_polygon_extrusion = true, of whichever type, extrude_segment extrudes
\* the actual polygon of the middle layer to the segment height.
C16_FlaggedIsPolygonExtrusion ==
    ExtrudedAll =>
        \A s \in 1..Len(segments) :
            segments[s].primitive_2d.use_polygon_extrusion =>
                IsPolygonExtrusion(primitives[s], segments[s])

\* C17: every polygon of rectangularity below 0.75 is reconstructed as the
\* extrusion of the actual polygon (flag set and polygon-extrusion volume),
\* whichever type is selected and whether or not the validator is enabled.
C17_LowRectangularityIsPolygonExtrusion ==
    (ExtrudedAll /\ Fitted) =>
        (calculate_shape_metrics(layers[1].polygon).rectangularity < 750 =>
            /\ segments[1].primitive_2d.use_polygon_extrusion
            /\ IsPolygonExtrusion(primitives[1], segments[1]))

\* 0.4 SSIM + 0.3 contour_similarity + 0.3 IoU in ten-thousandths, as stated
StatedConfidence(m) == 4 * m.ssim + 3 * m.contour_similarity + 3 * m.iou

\* C18 as stated: with the validator enabled the flag is set iff the
\* confidence 0.4 SSIM + 0.3 contour + 0.3 IoU is below 0.70, a primitive
\* that gives no polygon has confidence 0 and is flagged, and the flag is
\* true exactly when cv_validation.valid is false.
C18_FlagIsNotValid ==
    (Fitted /\ use_cv_validation) =>
        LET stated(best, m) ==
                /\ best.use_polygon_extrusion
                       <=> (~m.convertible \/ StatedConfidence(m) < 7000)
                /\ ~m.convertible => best.cv_confidence = 0
                /\ best.use_polygon_extrusion
                       <=> ~cv_valid(layers[1].polygon, best)
        IN  stated(segments[1].primitive_2d, layers[1].polygon.cvm)

\* C18: with the validator enabled the flag is set iff the confidence
\* 0.4 SSIM + 0.3 contour + 0.3 IoU is below 0.70; a primitive that gives
\* no polygon has confidence 0 and is flagged; cv_validation.valid is true
\* iff the confidence is above 0.70, so the flag is the negation of valid
\* except at a confidence of exactly 0.70, where both are false.
C18_FlagBelowThreshold ==
    (Fitted /\ use_cv_validation) =>
        LET stated(best, m, valid) ==
                /\ best.use_polygon_extrusion
                       <=> (~m.convertible \/ StatedConfidence(m) < 7000)
                /\ ~m.convertible => best.cv_confidence = 0
                /\ m.convertible =>
                       best.cv_confidence = StatedConfidence(m) \div 10
                /\ valid <=> (m.convertible /\ StatedConfidence(m) > 7000)
                /\ (~m.convertible \/ StatedConfidence(m) /= 7000) =>
                       (best.use_polygon_extrusion <=> ~valid)
                /\ (m.convertible /\ StatedConfidence(m) = 7000) =>
                       (~best.use_polygon_extrusion /\ ~valid)
        IN  stated(segments[1].primitive_2d, layers[1].polygon.cvm,
                   cv_valid(layers[1].polygon, segments[1].primitive_2d))

\* a fit validated at a confidence of exactly 0.70: not flagged, not valid
C18_Witness ==
    /\ Fitted
    /\ use_cv_validation
    /\ layers[1].polygon.cvm.convertible
    /\ StatedConfidence(layers[1].polygon.cvm) = 7000
    /\ segments[1].primitive_2d.cv_confidence = 700
    /\ ~segments[1].primitive_2d.use_polygon_extrusion
    /\ ~cv_valid(layers[1].polygon, segments[1].primitive_2d)


(***************************************************************************)
(* Placement of the extruded solids along the slicing axis.                *)
(***************************************************************************)
\* C19: for every slicing axis and primitive type the solid of a segment
\* occupies exactly [z_mid - height/2, z_mid + height/2] along the slicing
\* axis, z_mid = (z_start + z_end)/2 (ends in units of 1/(2 zden)).
C19_SolidSpansSegment ==
    ExtrudedAll =>
        \A s \in 1..Len(segments) :
            /\ primitives[s].lo2
                   = (segments[s].z_start + segments[s].z_end) - segments[s].height
            /\ primitives[s].hi2
                   = (segments[s].z_start + segments[s].z_end) + segments[s].height

\* C20: the axial intervals of the solids of two adjacent segments do not
\* overlap: the upper end z_end + layer_height/2 of the lower one is <= the
\* lower end z_start - layer_height/2 of the upper one.
C20_SolidsDoNotOverlap ==
    ExtrudedAll =>
        \A s \in 1..(Len(segments) - 1) :
            /\ primitives[s].hi2 <= primitives[s + 1].lo2
            /\ segments[s].z_end + layer_height * zden <= segments[s + 1].z_start


(***************************************************************************)
(* slice_mesh: the sampled heights.                                        *)
(***************************************************************************)
\* C21: slice_mesh samples z_min+h, z_min+2h, ..., z_max-h for
\* h = layer_height: the first height is z_min+h, the last is z_max-h, no
\* height equals z_min or z_max, and consecutive heights differ by exactly
\* layer_height.
C21_HeightsOneLayerApart ==
    "slice_mesh" \in log =>
        LET n == NumLayers(mesh, axis_name, layer_height)
            z_min == BoundsLo(mesh, axis_name) * zden
            z_max == BoundsHi(mesh, axis_name) * zden
            h == layer_height * zden
            z(k) == Height(mesh, axis_name, layer_height, k)
        IN  n >= 1 =>
               /\ z(0) = z_min + h
               /\ z(n - 1) = z_max - h
               /\ \A k \in 0..(n - 1) : z(k) /= z_min /\ z(k) /= z_max
               /\ \A k \in 0..(n - 2) : z(k + 1) - z(k) = h
               /\ \A i \in 1..Len(layers) :
                      layers[i].z_height = z(layers[i].layer_id)


(***************************************************************************)
(* calculate_quality.                                                      *)
(***************************************************************************)
\* calculate_quality has returned into `result`
Scored == pc = "done" /\ "calculate_quality" \in log

\* C22: calculate_quality returns 100 * max(0, 1 - |V_reconstructed -
\* V_original| / V_original), truncated to an integer, when V_original > 0
\* and 0 when V_original <= 0; the result is within 0..100 for all volumes,
\* a negative reconstructed volume included, and is 0 whenever the
\* computation raises.
C22_QualityFormula ==
    Scored =>
        LET V_original == MeshVolume(mesh)
            V_reconstructed == reconstructed.volume
            q == result.quality_score
            \* V_original * max(0, 1 - |V_reconstructed - V_original| / V_original)
            kept == Max(0, V_original - Abs(V_reconstructed - V_original))
        IN  /\ q \in 0..100
            /\ "caught:calculate_quality" \in log => q = 0
            /\ "caught:calculate_quality" \notin log =>
                  IF V_original > 0
                  THEN q * V_original <= 100 * kept
                       /\ 100 * kept < (q + 1) * V_original
                  ELSE q = 0

\* a reconstruction that is too large by less than the original's volume
\* has been scored strictly between 0 and 100
C22_Witness ==
    /\ Scored
    /\ "caught:calculate_quality" \notin log
    /\ reconstructed.volume > MeshVolume(mesh)
    /\ result.quality_score \in 1..99


(***************************************************************************)
(* reconstruct() called twice.                                             *)
(***************************************************************************)
\* two calls with the same arguments have returned, and the geometric
\* kernel answered the second as it answered the first
ReturnedTwice ==
    /\ previous.pc = "done"
    /\ pc = "done"
    /\ layer_height = previous.layer_height
    /\ log = previous.log

DistinctRadii ==
    /\ Len(mesh.parts) >= 2
    /\ \A i \in PartIdx(mesh) :
          mesh.parts[i].kind = "circle" /\ mesh.parts[i].section = "ok"
    /\ \E i, j \in PartIdx(mesh) : mesh.parts[i].a /= mesh.parts[j].a
    /\ axis_name = "Z"

\* a call with layer_height and a call with layer_height / 2 have returned
ReturnedCoarseAndFine ==
    /\ previous.pc = "done"
    /\ pc = "done"
    /\ 2 * layer_height = previous.layer_height

RECURSIVE SegmentLayers(_)
SegmentLayers(segs) ==
    IF segs = <<>> THEN <<>>
    ELSE Head(segs).layers \o SegmentLayers(Tail(segs))

\* C25: the segments of group_similar_layers partition the boundary-filtered
\* layer sequence: their layer lists concatenated in order are exactly the
\* filtered layer list, after the initial pass and after any number of merge
\* passes, and z_end of each segment is below z_start of the next.
C25_SegmentsPartitionLayers ==
    (pc = "merge" \/ Grouped) =>
        /\ SegmentLayers(segments) = filter_boundary_artifacts(layers)
        /\ \A s \in 1..(Len(segments) - 1) :
              segments[s].z_end < segments[s + 1].z_start

\* a pass of the merge loop has merged and left at least two segments
\* holding five layers or more
C25_Witness ==
    /\ pc = "merge"
    /\ iteration >= 1
    /\ merged
    /\ Len(segments) >= 2
    /\ Len(SegmentLayers(segments)) >= 5


(***************************************************************************)
(* The merge loop: what a pass merges and what is left when it stops.      *)
(***************************************************************************)
\* segments[i] is shorter than min_segment_height
IsShort(i) == segments[i].height < min_segment_height * zden

\* the test of the merge pass on segments[i] and its next neighbour, and on
\* its previous neighbour and segments[i]
MergesWithNext(i) ==
    i < Len(segments) /\ Compatible(segments[i], segments[i + 1])

MergesWithPrevious(i) ==
    i > 1 /\ Compatible(segments[i - 1], segments[i])

\* the short segments that have a neighbour to merge with
Mergeable ==
    { i \in 1..Len(segments) :
        IsShort(i) /\ (MergesWithNext(i) \/ MergesWithPrevious(i)) }

\* s starts with the sequence t
StartsWith(s, t) == Len(s) >= Len(t) /\ SubSeq(s, 1, Len(t)) = t

\* what a pass does with the first mergeable segment f: next neighbour
\* first, previous neighbour only if that fails
FirstMerge(f) ==
    /\ merged'
    /\ IF MergesWithNext(f)
       THEN /\ Len(segments') >= f
            /\ \A j \in 1..(f - 1) : segments'[j] = segments[j]
            /\ StartsWith(segments'[f].layers,
                          segments[f].layers \o segments[f + 1].layers)
       ELSE /\ Len(segments') >= f - 1
            /\ \A j \in 1..(f - 2) : segments'[j] = segments[j]
            /\ StartsWith(segments'[f - 1].layers,
                          segments[f - 1].layers \o segments[f].layers)

\* C26: when the merge loop stops on a pass that merged nothing, no
\* remaining segment with height < min_segment_height has a next or
\* previous neighbour with which should_merge_segments is true or with
\* which it shares the shape tag; a short segment is tried against its next
\* neighbour first and against its previous neighbour only if that fails.
C26_ShortSegmentsSettled ==
    /\ []((pc \in {"merge", "extrude"} /\ iteration >= 1 /\ ~merged)
             => Mergeable = {})
    /\ [][(pc = "merge" /\ iteration' = iteration + 1) =>
             IF Mergeable = {}
             THEN ~merged' /\ segments' = segments
             ELSE FirstMerge(SetMin(Mergeable))]_vars

\* the loop stopped on a pass that merged nothing and left a short segment
\* between neighbours it cannot merge with
C26_Witness ==
    /\ pc = "extrude"
    /\ iteration >= 1
    /\ ~merged
    /\ Len(segments) >= 2
    /\ \E i \in 1..Len(segments) : IsShort(i)


(***************************************************************************)
(* The initial pass: what a decision reads and which fit a segment keeps.  *)
(***************************************************************************)
\* the number of layers in the first s segments
RECURSIVE LayersUpTo(_, _)
LayersUpTo(segs, s) ==
    IF s = 0 THEN 0 ELSE Len(segs[s].layers) + LayersUpTo(segs, s - 1)

\* the positions (from 1) of the filtered layer list after which a segment
\* ends and another starts
Boundaries(segs) == { LayersUpTo(segs, s) : s \in 1..(Len(segs) - 1) }

\* should_merge_segments on filtered layers k and k + 1 alone: the earlier
\* one fitted without a hint, the later one with the hint of its position
PairMerges(fl, k) ==
    should_merge_segments(TempSeg(fl[k], None),
                          TempSeg(fl[k + 1], HintAt(vision_results, k))).merge

\* the layer at index len // 2, counted from 0
MiddleLayer(seg_layers) == seg_layers[(Len(seg_layers) \div 2) + 1]

\* the fit of a layer with the hint of its position in the sliced list, and
\* without a hint
FitOf(layer, shape_hint) ==
    classify_and_fit_2d(layer.polygon, shape_hint, use_cv_validation)

\* C27: in the initial pass the merge decision for layer i depends only on
\* the fits, areas and centroids of layers i-1 and i, never on the open
\* segment; every closed segment's primitive_2d is the fit of the layer at
\* index len(layers) // 2 of that segment, and a merged segment's
\* primitive_2d is the fit of the middle layer of the combined layer list.
C27_PairwiseDecisionMiddleFit ==
    /\ []((pc = "merge" /\ iteration = 0) =>
            /\ \A k \in 1..(Len(filter_boundary_artifacts(layers)) - 1) :
                  (k \in Boundaries(segments))
                      <=> ~PairMerges(filter_boundary_artifacts(layers), k)
            /\ \A s \in 1..Len(segments) :
                  segments[s].primitive_2d
                      = FitOf(MiddleLayer(segments[s].layers),
                              HintAt(vision_results,
                                     IndexOf(layers, MiddleLayer(segments[s].layers)))))
    /\ [][(pc = "merge" /\ iteration' = iteration + 1) =>
             \A s \in 1..Len(segments') :
                 (\A t \in 1..Len(segments) : segments[t] /= segments'[s]) =>
                     /\ Len(segments'[s].layers) >= 2
                     /\ segments'[s].primitive_2d
                            = FitOf(MiddleLayer(segments'[s].layers), None)]_vars

\* the initial pass closed a segment of three layers or more next to
\* another segment, and its layers do not all have the same polygon
C27_Witness ==
    /\ pc = "merge"
    /\ iteration = 0
    /\ Len(segments) >= 2
    /\ \E s \in 1..Len(segments) :
          /\ Len(segments[s].layers) >= 3
          /\ segments[s].layers[1].polygon /= MiddleLayer(segments[s].layers).polygon


(***************************************************************************)
(* LayerAnalyzer._group_layers_into_boxes.                                 *)
(***************************************************************************)
\* the positions in layer_data of the regions a box was built from
BoxRun(box) == box.first .. (box.first + box.n_layers - 1)

\* the IoU of the bounding boxes of two regions is above 0.8
IoUAbove80(p, q) ==
    LET w == Min(p.bounds[3], q.bounds[3]) - Max(p.bounds[1], q.bounds[1])
        h == Min(p.bounds[4], q.bounds[4]) - Max(p.bounds[2], q.bounds[2])
        inter == IF w < 0 \/ h < 0 THEN 0 ELSE w * h
    IN  10 * inter > 8 * (p.area + q.area - inter)

\* the four conditions as stated: relative area change |a - a_prev| / a_prev
StatedGroupable(p, q) ==
    /\ IoUAbove80(p, q)
    /\ q.z - p.z <= 2 * analyzer_layer_height
    /\ DistSq(p.center2, q.center2) < 4 * 25
    /\ 100 * Abs(q.area - p.area) < 15 * p.area

\* the same with the area change taken relative to a_prev + 1e-6
GroupableWithEpsilon(p, q) ==
    /\ IoUAbove80(p, q)
    /\ q.z - p.z <= 2 * analyzer_layer_height
    /\ DistSq(p.center2, q.center2) < 4 * 25
    /\ 100 * 1000000 * Abs(q.area - p.area) < 15 * (1000000 * p.area + 1)

\* the sum of the dimensions of the box built from layer_data[a..c]
\* (averaged widths and the z range) is above 10
RunLargeEnough(a, c) ==
    LET ld == analyzer.layer_data
        n == c - a + 1
    IN  SumSeq([k \in 1..n |-> ld[a + k - 1].width + ld[a + k - 1].height])
            + n * (SetMax({ ld[k].z : k \in a..c }) - SetMin({ ld[k].z : k \in a..c }))
        > 10 * n

\* every box comes from a run of at least 3 consecutive regions pairwise
\* groupable under G and is large enough; once the boxes are returned, no
\* region of a maximal run that is too short or too small is in any box
BoxesFromRuns(G(_, _)) ==
    LET ld == analyzer.layer_data
        bx == analyzer.boxes
        IsGroup(a, c) ==
            /\ \A k \in a..(c - 1) : G(ld[k], ld[k + 1])
            /\ a = 1 \/ ~G(ld[a - 1], ld[a])
            /\ c = Len(ld) \/ ~G(ld[c], ld[c + 1])
    IN  /\ \A b \in 1..Len(bx) :
              /\ bx[b].n_layers >= 3
              /\ BoxRun(bx[b]) \subseteq 1..Len(ld)
              /\ RunLargeEnough(bx[b].first, bx[b].first + bx[b].n_layers - 1)
              /\ \A k \in BoxRun(bx[b]) \ {bx[b].first} : G(ld[k - 1], ld[k])
        /\ pc = "boxes_returned" =>
              \A a \in 1..Len(ld) : \A c \in a..Len(ld) :
                  (IsGroup(a, c) /\ (c - a + 1 < 3 \/ ~RunLargeEnough(a, c))) =>
                      \A b \in 1..Len(bx) : BoxRun(bx[b]) \cap (a..c) = {}

\* C28 as stated: every box of _group_layers_into_boxes is built from a run
\* of at least 3 consecutive layer regions and has a dimension sum above 10;
\* within a box every two consecutive regions have bounding-box IoU > 0.8,
\* z gap <= 2 layer_height, centre shift < 5.0 and relative area change
\* < 0.15; a group that fails the layer-count or size check is dropped and
\* its regions appear in no returned box.
C28_BoxesFromStatedRuns == BoxesFromRuns(StatedGroupable)

\* C28, amended: the same with the area change of two consecutive regions
\* measured as |area - previous area| / (previous area + 1e-6) < 0.15, so
\* that a change of exactly 15% still groups.
C28_BoxesFromRunsWithEpsilon == BoxesFromRuns(GroupableWithEpsilon)

\* a group of two regions was dropped and a box of three returned, one of
\* its regions exactly 15% larger than the one before it
C28_Witness ==
    /\ pc = "boxes_returned"
    /\ Len(analyzer.layer_data) = 5
    /\ Len(analyzer.boxes) = 1
    /\ analyzer.boxes[1].first = 3
    /\ \E k \in BoxRun(analyzer.boxes[1]) \ {3} :
          100 * (analyzer.layer_data[k].area - analyzer.layer_data[k - 1].area)
              = 15 * analyzer.layer_data[k - 1].area


(***************************************************************************)
(* Segments of equal type.                                                 *)
(***************************************************************************)
\* every fit the initial pass makes of the filtered layers (the earlier
\* layer of a comparison without a hint, the later one with the hint of its
\* position) gives one and the same type
OneTypeThroughout ==
    LET fl == filter_boundary_artifacts(layers)
    IN  /\ Len(fl) >= 1
        /\ \A k \in 1..Len(fl) :
              /\ FitOf(fl[k], None).type = FitOf(fl[1], None).type
              /\ FitOf(fl[k], HintAt(vision_results, k - 1)).type
                     = FitOf(fl[1], None).type

IsRepresentative(fl, k) ==
    \E s \in 1..Len(segments) : RepLayer(segments[s].layers) = fl[k]

\* the hints of the fits the initial pass makes of the filtered layer at
\* position k: as the current layer (or, for the first layer, at the top),
\* as the previous layer of the next comparison, as a representative
HintsUsed(fl, k) ==
    { HintAt(vision_results, k - 1) }
    \cup (IF k < Len(fl) THEN { None } ELSE {})
    \cup (IF IsRepresentative(fl, k)
          THEN { IF vision_results # <<>>
                 THEN HintAt(vision_results, IndexOf(layers, fl[k]))
                 ELSE None }
          ELSE {})

\* C30: for every layer, every fit of that layer performed inside one
\* group_similar_layers call (as the current layer of a comparison, as the
\* previous layer of the next comparison, as the representative of a
\* segment) uses the same vision hint and therefore yields the same
\* primitive type.
C30_OneHintPerLayer ==
    (pc = "merge" /\ iteration = 0) =>
        LET fl == filter_boundary_artifacts(layers)
        IN  \A k \in 1..Len(fl) :
                /\ Cardinality(HintsUsed(fl, k)) = 1
                /\ Cardinality({ FitOf(fl[k], h).type : h \in HintsUsed(fl, k) }) = 1

=============================================================================
